---- MODULE Spec2Model ----
(***************************************************************************)
(* Model of the V1 -> Vyco converter: the category reconciler              *)
(* (modulos/mapeador_categorias.py), the record transformer                *)
(* (modulos/processador_dados.py), the schema normalizer                   *)
(* (modulos/gerador_excel.py) and the wizard that drives them (app.py).    *)
(*                                                                         *)
(* Text is modelled by TLA+ strings, on which Len, SubSeq and \o act       *)
(* character by character.  A cell of a table is a tagged value: Str(s)    *)
(* for text, NaN for a missing cell, None for Python's None.  A table      *)
(* (DataFrame) is [cols |-> sequence of column names, rows |-> sequence    *)
(* of functions from the column names to cells].  A dict is a sequence of  *)
(* <<key, value>> pairs with distinct keys, in insertion order.            *)
(***************************************************************************)
EXTENDS FiniteSets, Integers, Sequences, TLC

VARIABLES
    etapa_atual,            \* st.session_state.etapa_atual
    dados_lancamentos,      \* st.session_state.dados_lancamentos
    dados_transferencias,   \* st.session_state.dados_transferencias
    dados_categorias,       \* st.session_state.dados_categorias
    mapeamento_categorias,  \* st.session_state.mapeamento_categorias
    selecao,                \* the selectboxes of step 3 that show a category
    tela,                   \* what step 4 shows after its run
    arquivos_memoria,       \* the files step 4 offers for download
    hoje,                   \* days passed on the clock read by datetime.now()
    anterior,               \* what the previous run of the pipeline returned
    planilhas,              \* the six tables after formatting
    entrada,                \* arguments of the function under call
    saida,                  \* what the call returned
    fase                    \* position of the caller

vars == <<etapa_atual, dados_lancamentos, dados_transferencias, dados_categorias,
          mapeamento_categorias, selecao, tela, arquivos_memoria, hoje, anterior,
          planilhas, entrada, saida, fase>>

sessao == <<etapa_atual, dados_lancamentos, dados_transferencias, dados_categorias,
            mapeamento_categorias, selecao>>

execucao == <<tela, arquivos_memoria, hoje, anterior, planilhas>>

(***************************************************************************)
(* Bounds of the model.                                                     *)
(***************************************************************************)
\* longest label enumerated exhaustively over Alfabeto
MaxRotulo == 5
\* most rows of an enumerated input table
MaxLinhas == 2
\* most entries of an enumerated dict
MaxMapa == 2
\* most days the clock advances
MaxDias == 1
\* most labels of an enumerated list of valid labels
MaxValidas == 2

(***************************************************************************)
(* Cells.                                                                   *)
(***************************************************************************)
Str(s) == [k |-> "str", v |-> s]
NaN == [k |-> "nan", v |-> ""]
None == [k |-> "none", v |-> ""]
\* a whole number
Num(n) == [k |-> "num", v |-> n]
\* pandas Timestamp at midnight
Timestamp(y, m, d) == [k |-> "date", v |-> <<y, m, d>>]
Falso == [k |-> "bool", v |-> FALSE]

IsStr(c) == c.k = "str"
\* pandas isna / notna: NaN (NaT) and None are both missing
IsNa(c) == c.k \in {"nan", "none"}

(***************************************************************************)
(* Python string primitives.                                                *)
(***************************************************************************)
Char(s, i) == SubSeq(s, i, i)

\* str.isspace for one character; also the regex class \s
IsSpace(c) == c \in {" ", "\t", "\n", "\r"}

\* the regex class \d
IsDigit(c) == c \in {"0", "1", "2", "3", "4", "5", "6", "7", "8", "9"}

\* the regex class [A-Za-z]
IsAsciiLetter(c) ==
    c \in {"A", "B", "C", "D", "E", "F", "G", "H", "I", "J", "K", "L", "M",
           "N", "O", "P", "Q", "R", "S", "T", "U", "V", "W", "X", "Y", "Z",
           "a", "b", "c", "d", "e", "f", "g", "h", "i", "j", "k", "l", "m",
           "n", "o", "p", "q", "r", "s", "t", "u", "v", "w", "x", "y", "z"}

RECURSIVE LStrip(_)
LStrip(s) == IF Len(s) > 0 /\ IsSpace(Char(s, 1)) THEN LStrip(Tail(s)) ELSE s

RECURSIVE RStrip(_)
RStrip(s) ==
    IF Len(s) > 0 /\ IsSpace(Char(s, Len(s)))
    THEN RStrip(SubSeq(s, 1, Len(s) - 1))
    ELSE s

\* str.strip()
Strip(s) == LStrip(RStrip(s))

StartsAt(sub, s, i) ==
    /\ i >= 1
    /\ i + Len(sub) - 1 <= Len(s)
    /\ SubSeq(s, i, i + Len(sub) - 1) = sub

RECURSIVE FindFrom(_, _, _)
FindFrom(sub, s, i) ==
    IF i + Len(sub) - 1 > Len(s) THEN 0
    ELSE IF StartsAt(sub, s, i) THEN i
    ELSE FindFrom(sub, s, i + 1)

\* 1-based index of the first occurrence of sub in s, 0 when there is none
Find(sub, s) == FindFrom(sub, s, 1)

\* Python's "sub in s"
Contains(sub, s) == Find(sub, s) # 0

\* s.split(sep, 1) when sep occurs in s: the text before and after the
\* first occurrence
SplitFirst(s, sep) ==
    LET i == Find(sep, s)
    IN  <<SubSeq(s, 1, i - 1), SubSeq(s, i + Len(sep), Len(s))>>

(***************************************************************************)
(* Conversions between cells and text.                                      *)
(***************************************************************************)
Digitos == "0123456789"

RECURSIVE NatToStr(_)
NatToStr(n) ==
    IF n < 10 THEN Char(Digitos, n + 1)
    ELSE NatToStr(n \div 10) \o Char(Digitos, (n % 10) + 1)

\* str(n) of an int
IntToStr(n) == IF n < 0 THEN "-" \o NatToStr(0 - n) ELSE NatToStr(n)

AllDigits(s) == Len(s) > 0 /\ \A i \in 1..Len(s) : IsDigit(Char(s, i))

RECURSIVE StrToNat(_)
\* int(s) of a text of digits
StrToNat(s) ==
    IF Len(s) = 0 THEN 0
    ELSE StrToNat(SubSeq(s, 1, Len(s) - 1)) * 10 + (Find(Char(s, Len(s)), Digitos) - 1)

\* n written with at least w digits
ZeroPad(n, w) == IF Len(NatToStr(n)) >= w THEN NatToStr(n)
                 ELSE SubSeq("0000", 1, w - Len(NatToStr(n))) \o NatToStr(n)

\* the date of str(Timestamp): YYYY-MM-DD
IsoData(d) == ZeroPad(d[1], 4) \o "-" \o ZeroPad(d[2], 2) \o "-" \o ZeroPad(d[3], 2)

\* Python str(x) of a cell
PyStr(c) ==
    CASE c.k = "str" -> c.v
      [] c.k = "nan" -> "nan"
      [] c.k = "none" -> "None"
      [] c.k = "num" -> IntToStr(c.v)
      [] c.k = "bool" -> (IF c.v THEN "True" ELSE "False")
      [] c.k = "date" -> IsoData(c.v) \o " 00:00:00"

(***************************************************************************)
(* MapeadorCategorias._limpar_categoria                                     *)
(***************************************************************************)
\* U+2013 and U+2014 are outside the character set of a TLA+ string; these
\* two ASCII characters stand for them everywhere in the model.
EnDash == "~"
EmDash == "="

separadores ==
    <<" - ", " " \o EnDash \o " ", " " \o EmDash \o " ", " | ", ": ", " :: ">>

\* the index after the longest run of digits that starts at i (i itself when
\* s has no digit at i)
RECURSIVE DigitsEnd(_, _)
DigitsEnd(s, i) ==
    IF i <= Len(s) /\ IsDigit(Char(s, i)) THEN DigitsEnd(s, i + 1) ELSE i

\* the index after (?:\.\d+)* matched greedily from i
RECURSIVE DottedEnd(_, _)
DottedEnd(s, i) ==
    IF i <= Len(s) /\ Char(s, i) = "." /\ DigitsEnd(s, i + 1) > i + 1
    THEN DottedEnd(s, DigitsEnd(s, i + 1))
    ELSE i

RECURSIVE SpacesEnd(_, _)
SpacesEnd(s, i) ==
    IF i <= Len(s) /\ IsSpace(Char(s, i)) THEN SpacesEnd(s, i + 1) ELSE i

\* MatchCodigo without the dotted segments: r'^(\d+)\s+(.+)$'
MatchCodigoSemPontos(s, skip) ==
    LET d == DigitsEnd(s, skip + 1)
        w == SpacesEnd(s, d)
        resto == SubSeq(s, w, Len(s))
    IN  IF d > skip + 1 /\ w > d /\ w <= Len(s) /\ ~Contains("\n", resto)
        THEN <<TRUE, SubSeq(s, 1, d - 1), resto>>
        ELSE <<FALSE, "", "">>

\* re.match(r'^<prefix>(\d+(?:\.\d+)*)\s+(.+)$', s) where the code starts
\* with `skip` characters already matched: <<matched, group 1, group 2>>.
\* Every quantifier is greedy and what follows each of them cannot start
\* with a character the quantifier accepts, so the greedy match is the only
\* candidate.  `.` matches no line break, and `$` matches at the end of s or
\* before a final line break.
MatchCodigo(s, skip) ==
    LET d == DigitsEnd(s, skip + 1)
        e == DottedEnd(s, d)
        w == SpacesEnd(s, e)
        fim == IF Len(s) > 0 /\ Char(s, Len(s)) = "\n" THEN Len(s) - 1 ELSE Len(s)
        resto == SubSeq(s, w, fim)
    IN  IF /\ d > skip + 1
           /\ w > e
           /\ w <= fim
           /\ ~Contains("\n", resto)
        THEN <<TRUE, SubSeq(s, 1, e - 1), resto>>
        ELSE <<FALSE, "", "">>

RECURSIVE LimparPorSeparador(_, _)
\* the loop over `separadores` from position i of the list on; <<found,
\* codigo, nome>>
LimparPorSeparador(texto, i) ==
    IF i > Len(separadores) THEN <<FALSE, "", "">>
    ELSE IF Contains(separadores[i], texto)
         THEN LET partes == SplitFirst(texto, separadores[i])
              IN  <<TRUE, Strip(partes[1]), Strip(partes[2])>>
         ELSE LimparPorSeparador(texto, i + 1)

\* the two re.match calls and the fallback, m1 and m2 being what they give
LimparPorCodigo(m1, m2, texto) ==
    IF m1[1] THEN <<m1[2], m1[3]>>
    ELSE IF m2[1] THEN <<m2[2], m2[3]>>
    ELSE <<"", texto>>

\* what follows the loop over separadores, porSep being what it gives
LimparAposSeparadores(porSep, texto) ==
    IF porSep[1] THEN <<porSep[2], porSep[3]>>
    ELSE LimparPorCodigo(MatchCodigo(texto, 0),
                         IF Len(texto) > 0 /\ IsAsciiLetter(Char(texto, 1))
                         THEN MatchCodigo(texto, 1)
                         ELSE <<FALSE, "", "">>,
                         texto)

\* what follows categoria_texto.strip()
LimparTexto(texto) == LimparAposSeparadores(LimparPorSeparador(texto, 1), texto)

_limpar_categoria(categoria_texto) ==
    LimparTexto(Strip(IF IsStr(categoria_texto) THEN categoria_texto.v
                      ELSE IF categoria_texto.k = "none" THEN ""
                      ELSE PyStr(categoria_texto)))

(***************************************************************************)
(* Sequences, tables (DataFrame) and dicts.                                 *)
(***************************************************************************)
Range(f) == {f[i] : i \in DOMAIN f}

RECURSIVE SelectSeqP(_, _)
\* the subsequence of the elements of q that are in the set keep
SelectSeqP(q, keep) ==
    IF q = <<>> THEN <<>>
    ELSE IF Head(q) \in keep THEN <<Head(q)>> \o SelectSeqP(Tail(q), keep)
    ELSE SelectSeqP(Tail(q), keep)

RECURSIVE Unique(_)
\* Series.unique(): the distinct values in first-seen order
Unique(q) ==
    IF q = <<>> THEN <<>>
    ELSE LET r == Unique(SubSeq(q, 1, Len(q) - 1))
             x == q[Len(q)]
         IN  IF x \in Range(r) THEN r ELSE Append(r, x)

\* Series.dropna()
DropNa(q) == SelectSeqP(q, {x \in Range(q) : ~IsNa(x)})

\* the first position of x in q, 0 when it is not there
IndexOf(q, x) ==
    IF x \in Range(q) THEN CHOOSE i \in 1..Len(q) : q[i] = x /\ \A j \in 1..(i - 1) : q[j] # x
    ELSE 0

\* "col in df.columns"
HasCol(df, col) == col \in Range(df.cols)

\* df[col] as a sequence of cells; df has the column
Coluna(df, col) == [i \in 1..Len(df.rows) |-> df.rows[i][col]]

\* the code points of the characters the model's texts are written in, in
\* increasing order (printable ASCII 0x20..0x7E without the double quote, the
\* backslash and the grave accent, then the accented letters)
OrdemCaracteres ==
    " !#$%&'()*+,-./0123456789:;<=>?@ABCDEFGHIJKLMNOPQRSTUVWXYZ[]^_abcdefghijklmnopqrstuvwxyz{|}~ÁÇÉÍÓãçéíóõ"

OrdDe == [c \in {Char(OrdemCaracteres, i) : i \in 1..Len(OrdemCaracteres)} |-> Find(c, OrdemCaracteres)]

\* ord(c), up to an order-preserving renumbering; control characters sort first
Ord(c) == IF c \in DOMAIN OrdDe THEN OrdDe[c] ELSE 0

RECURSIVE StrLess(_, _)
\* Python's a < b on str: lexicographic by code point
StrLess(a, b) ==
    IF Len(b) = 0 THEN FALSE
    ELSE IF Len(a) = 0 THEN TRUE
    ELSE IF Char(a, 1) = Char(b, 1) THEN StrLess(Tail(a), Tail(b))
    ELSE Ord(Char(a, 1)) < Ord(Char(b, 1))

RECURSIVE Sorted(_)
\* sorted(list(S)) for a set of str
Sorted(S) ==
    IF S = {} THEN <<>>
    ELSE LET m == CHOOSE x \in S : \A y \in S \ {x} : StrLess(x, y)
         IN  <<m>> \o Sorted(S \ {m})

Maiusculas == "ABCDEFGHIJKLMNOPQRSTUVWXYZÁÇÉÍÓ"
Minusculas == "abcdefghijklmnopqrstuvwxyzáçéíó"
MinusculaDe == [c \in {Char(Maiusculas, i) : i \in 1..Len(Maiusculas)} |-> Char(Minusculas, Find(c, Maiusculas))]

\* str.lower() on the letters of OrdemCaracteres
LowerChar(c) == IF c \in DOMAIN MinusculaDe THEN MinusculaDe[c] ELSE c

RECURSIVE Lower(_)
Lower(s) == IF Len(s) = 0 THEN "" ELSE LowerChar(Char(s, 1)) \o Lower(Tail(s))

\* dict: keys in insertion order, lookup, d[k] = v
Keys(d) == [i \in 1..Len(d) |-> d[i][1]]
HasKey(d, k) == k \in Range(Keys(d))
Lookup(d, k) == d[IndexOf(Keys(d), k)][2]
DictSet(d, k, v) ==
    IF HasKey(d, k) THEN [d EXCEPT ![IndexOf(Keys(d), k)] = <<k, v>>]
    ELSE Append(d, <<k, v>>)

(***************************************************************************)
(* MapeadorCategorias: the reconciler.                                      *)
(***************************************************************************)
\* _processar_categorias_com_codigo with the raw label kept as its clean name
NomesLimposSemLimpeza(df, coluna) ==
    [i \in 1..Len(df.rows) |-> PyStr(df.rows[i][coluna])]

\* _processar_categorias_com_codigo: the column <coluna>_Nome_Limpo it adds
NomesLimpos(df, coluna) ==
    [i \in 1..Len(df.rows) |-> _limpar_categoria(df.rows[i][coluna])[2]]

palavras_chave ==
    <<"categoria", "plano", "conta", "classificacao", "classificação",
      "nome", "descricao", "descrição", "grupo", "tipo",
      "receita", "despesa", "centro", "custo">>

\* dtype == 'object': a column that holds text (or None) somewhere
IsObjectCol(df, col) == \E i \in 1..Len(df.rows) : df.rows[i][col].k \in {"str", "none"}

\* the inner loop: some keyword occurs in the lower-cased, trimmed name
TemPalavraChave(coluna_lower) ==
    \E i \in 1..Len(palavras_chave) : Contains(palavras_chave[i], coluna_lower)

_encontrar_coluna_categoria(df) ==
    LET porPalavra ==
            SelectSeqP(df.cols, {c \in Range(df.cols) : TemPalavraChave(Strip(Lower(c)))})
        textuais ==
            SelectSeqP(df.cols,
                {c \in Range(df.cols) :
                    /\ IsObjectCol(df, c)
                    /\ DropNa(Coluna(df, c)) # <<>>
                    /\ LET amostra == DropNa(Coluna(df, c))[1]
                       IN  IsStr(amostra) /\ Len(amostra.v) > 2})
    IN  IF porPalavra # <<>> THEN porPalavra
        ELSE IF textuais # <<>> THEN <<textuais[1]>>
        ELSE <<>>

\* a falsy optional argument ("" or None) is written ""
encontrar_categorias_inconsistentes(lanc, cat, coluna_lancamentos_manual, coluna_plano_manual) ==
    LET coluna_categoria_lancamentos ==
            IF coluna_lancamentos_manual # "" THEN coluna_lancamentos_manual ELSE "Categoria"
        colunas_categoria_plano == _encontrar_coluna_categoria(cat)
    IN  IF coluna_plano_manual = "" /\ colunas_categoria_plano = <<>>
        THEN [ret |-> <<>>, st_error |-> TRUE]
        ELSE
        LET coluna_categoria_plano ==
                IF coluna_plano_manual # "" THEN coluna_plano_manual
                ELSE colunas_categoria_plano[1]
        IN  IF ~HasCol(cat, coluna_categoria_plano) \/ ~HasCol(lanc, coluna_categoria_lancamentos)
            THEN \* KeyError, caught by the except clause
                 [ret |-> <<>>, st_error |-> TRUE]
            ELSE
            LET categorias_antigas ==
                    {c.v : c \in Range(Unique(DropNa(Coluna(lanc, coluna_categoria_lancamentos))))}
                categorias_novas ==
                    Range(Unique(NomesLimpos(cat, coluna_categoria_plano)))
                categorias_inconsistentes == categorias_antigas \ categorias_novas
            IN  [ret |-> Sorted(categorias_inconsistentes), st_error |-> FALSE]

obter_categorias_validas(cat, coluna_categoria) ==
    LET colunas_categoria == _encontrar_coluna_categoria(cat)
    IN  IF coluna_categoria = "" /\ colunas_categoria = <<>> THEN <<>>
        ELSE
        LET coluna == IF coluna_categoria # "" THEN coluna_categoria ELSE colunas_categoria[1]
        IN  IF ~HasCol(cat, coluna) THEN <<>>
            ELSE Sorted({n \in Range(Unique(NomesLimpos(cat, coluna))) : Strip(n) # ""})

\* validar_mapeamento_completo without the check of the values
validar_sem_verificar_valores(mapeamento, categorias_inconsistentes) ==
    LET categorias_faltantes == Range(categorias_inconsistentes) \ Range(Keys(mapeamento))
    IN  IF categorias_faltantes # {}
        THEN [ret |-> FALSE, st_error |-> categorias_faltantes]
        ELSE [ret |-> TRUE, st_error |-> {}]

\* st_error: the labels named in the error message
validar_mapeamento_completo(mapeamento, categorias_inconsistentes) ==
    LET categorias_mapeadas == Range(Keys(mapeamento))
        categorias_faltantes == Range(categorias_inconsistentes) \ categorias_mapeadas
        categorias_sem_valor == {mapeamento[i][1] : i \in {j \in 1..Len(mapeamento) : mapeamento[j][2] = ""}}
    IN  IF categorias_faltantes # {}
        THEN [ret |-> FALSE, st_error |-> categorias_faltantes]
        ELSE IF categorias_sem_valor # {}
        THEN [ret |-> FALSE, st_error |-> categorias_sem_valor]
        ELSE [ret |-> TRUE, st_error |-> {}]

(***************************************************************************)
(* MapeadorCategorias._sugerir_categoria_similar                            *)
(***************************************************************************)
RECURSIVE TokenEnd(_, _)
\* the end of the run of non-whitespace characters of s that holds position i
TokenEnd(s, i) ==
    IF i < Len(s) /\ ~IsSpace(Char(s, i + 1)) THEN TokenEnd(s, i + 1) ELSE i

RECURSIVE SplitDe(_)
\* s.split() of a text that does not start with whitespace
SplitDe(s) ==
    IF Len(s) = 0 THEN <<>>
    ELSE <<SubSeq(s, 1, TokenEnd(s, 1))>>
         \o SplitDe(LStrip(SubSeq(s, TokenEnd(s, 1) + 1, Len(s))))

\* Python's s.split(): the runs of non-whitespace characters
Split(s) == SplitDe(LStrip(s))

\* the comparison in one direction only
PalavraCasaSoNaNova(palavra_antiga, palavra_nova) ==
    Contains(palavra_antiga, palavra_nova)

\* palavra_antiga in palavra_nova or palavra_nova in palavra_antiga
PalavraCasa(palavra_antiga, palavra_nova) ==
    Contains(palavra_antiga, palavra_nova) \/ Contains(palavra_nova, palavra_antiga)

\* the two inner loops: some word of the old label longer than 3 characters
\* matches some word of the valid label
TemPalavraParecida(palavras_antigas, palavras_novas) ==
    \E i \in 1..Len(palavras_antigas) :
        /\ Len(palavras_antigas[i]) > 3
        /\ \E j \in 1..Len(palavras_novas) :
                PalavraCasa(palavras_antigas[i], palavras_novas[j])

RECURSIVE BuscaParcial(_, _, _)
\* the second loop over categorias_validas, from position i on
BuscaParcial(categoria_antiga_lower, categorias_validas, i) ==
    IF i > Len(categorias_validas) THEN ""
    ELSE IF TemPalavraParecida(Split(categoria_antiga_lower),
                               Split(Lower(categorias_validas[i])))
    THEN categorias_validas[i]
    ELSE BuscaParcial(categoria_antiga_lower, categorias_validas, i + 1)

RECURSIVE BuscaExata(_, _, _)
\* the first loop over categorias_validas, from position i on, and what
\* follows it
BuscaExata(categoria_antiga_lower, categorias_validas, i) ==
    IF i > Len(categorias_validas)
    THEN BuscaParcial(categoria_antiga_lower, categorias_validas, 1)
    ELSE IF Lower(categorias_validas[i]) = categoria_antiga_lower
    THEN categorias_validas[i]
    ELSE BuscaExata(categoria_antiga_lower, categorias_validas, i + 1)

\* "" is 'no suggestion'
_sugerir_categoria_similar(categoria_antiga, categorias_validas) ==
    BuscaExata(Lower(categoria_antiga), categorias_validas, 1)

(***************************************************************************)
(* MapeadorCategorias.criar_interface_mapeamento                            *)
(*                                                                         *)
(* escolhas holds the option the operator picked in the selectbox of a      *)
(* label; a selectbox the operator never touched shows the option at its    *)
(* index argument.                                                          *)
(***************************************************************************)
\* options=[""] + categorias_validas, index=categorias_validas.index(
\* categoria_sugerida) + 1 if categoria_sugerida else 0
OpcaoInicial(categoria_sugerida, categorias_validas) ==
    IF categoria_sugerida # ""
    THEN (<<"">> \o categorias_validas)[IndexOf(categorias_validas, categoria_sugerida) + 1]
    ELSE ""

\* what st.selectbox returns for categoria_antiga
ValorSelectbox(categoria_antiga, categorias_validas, escolhas) ==
    IF HasKey(escolhas, categoria_antiga)
    THEN Lookup(escolhas, categoria_antiga)
    ELSE OpcaoInicial(_sugerir_categoria_similar(categoria_antiga, categorias_validas),
                      categorias_validas)

\* if categoria_nova: mapeamento[categoria_antiga] = categoria_nova
ComEscolha(mapeamento, categoria_antiga, categoria_nova) ==
    IF categoria_nova # "" THEN DictSet(mapeamento, categoria_antiga, categoria_nova)
    ELSE mapeamento

RECURSIVE MapearDe(_, _, _, _, _)
\* the loop over categorias_inconsistentes from position i on
MapearDe(mapeamento, categorias_inconsistentes, categorias_validas, escolhas, i) ==
    IF i > Len(categorias_inconsistentes) THEN mapeamento
    ELSE MapearDe(
            ComEscolha(mapeamento, categorias_inconsistentes[i],
                       ValorSelectbox(categorias_inconsistentes[i], categorias_validas, escolhas)),
            categorias_inconsistentes, categorias_validas, escolhas, i + 1)

criar_interface_mapeamento(categorias_inconsistentes, categorias_validas, escolhas) ==
    IF categorias_inconsistentes = <<>> THEN <<>>
    ELSE MapearDe(<<>>, categorias_inconsistentes, categorias_validas, escolhas, 1)

(***************************************************************************)
(* ProcessadorDados._aplicar_mapeamento_categorias                          *)
(***************************************************************************)
\* the columns the mapping may be applied to, in column order
colunas_categoria_de(df) ==
    SelectSeqP(df.cols,
        {col \in Range(df.cols) :
            \/ col = "Categoria"
            \/ (Contains("categoria", Lower(col)) /\ ~Contains("codigo", Lower(col)))
            \/ Contains("plano", Lower(col))})

\* df.loc[df[col] == antiga, col] = nova
SubstituirNaColuna(rows, col, antiga, nova) ==
    [i \in 1..Len(rows) |->
        IF rows[i][col] = Str(antiga) THEN [rows[i] EXCEPT ![col] = Str(nova)]
        ELSE rows[i]]

RECURSIVE AplicarEntradas(_, _, _, _)
\* the loop over mapeamento.items() from entry i on
AplicarEntradas(rows, col, mapeamento, i) ==
    IF i > Len(mapeamento) THEN rows
    ELSE AplicarEntradas(
            SubstituirNaColuna(rows, col, mapeamento[i][1], mapeamento[i][2]),
            col, mapeamento, i + 1)

_aplicar_mapeamento_categorias(df, mapeamento) ==
    LET colunas_categoria == colunas_categoria_de(df)
    IN  IF colunas_categoria # <<>>
        THEN [df EXCEPT !.rows = AplicarEntradas(df.rows, colunas_categoria[1], mapeamento, 1)]
        ELSE df

(***************************************************************************)
(* Operations on tables.                                                    *)
(***************************************************************************)
\* pd.DataFrame(columns=cols)
TabelaVazia(cols) == [cols |-> cols, rows |-> <<>>]

\* df[col] = valores, one cell per row: an existing column is replaced in
\* place, a new one is appended
AtribuirColuna(df, col, valores) ==
    LET cols == IF HasCol(df, col) THEN df.cols ELSE Append(df.cols, col)
    IN  [cols |-> cols,
         rows |-> [i \in 1..Len(df.rows) |->
                     [c \in Range(cols) |-> IF c = col THEN valores[i] ELSE df.rows[i][c]]]]

\* df[col] = scalar
AtribuirEscalar(df, col, valor) ==
    AtribuirColuna(df, col, [i \in 1..Len(df.rows) |-> valor])

\* df[cols]; df has every column of cols
Projetar(df, cols) ==
    [cols |-> cols,
     rows |-> [i \in 1..Len(df.rows) |-> [c \in Range(cols) |-> df.rows[i][c]]]]

\* df.drop(col, axis=1)
Remover(df, col) == Projetar(df, SelectSeqP(df.cols, Range(df.cols) \ {col}))

\* df.rename(columns={de: para})
Renomear(df, de, para) ==
    LET cols == [j \in 1..Len(df.cols) |-> IF df.cols[j] = de THEN para ELSE df.cols[j]]
    IN  [cols |-> cols,
         rows |-> [i \in 1..Len(df.rows) |->
                     [c \in Range(cols) |->
                        IF c = para /\ HasCol(df, de) THEN df.rows[i][de] ELSE df.rows[i][c]]]]

\* Series.fillna(valor) on one cell
FillNa(c, valor) == IF IsNa(c) THEN valor ELSE c

\* the name of a column whose header is not text (a number in the header
\* row, which DataFrame.columns.str.strip() turns into NaN): it has no
\* method lower(), so col.lower() raises AttributeError
NomeNaoTexto == "<NaN>"

TemNomeNaoTexto(df) == NomeNaoTexto \in Range(df.cols)

(***************************************************************************)
(* Dates.                                                                   *)
(***************************************************************************)
Bissexto(y) == (y % 4 = 0 /\ y % 100 # 0) \/ y % 400 = 0

DiasNoMes(y, m) ==
    IF m = 2 THEN (IF Bissexto(y) THEN 29 ELSE 28)
    ELSE IF m \in {4, 6, 9, 11} THEN 30
    ELSE 31

\* d = <<year, month, day>> is a date of the calendar
DataValida(d) ==
    /\ d[1] >= 1
    /\ d[2] \in 1..12
    /\ d[3] >= 1
    /\ d[3] <= DiasNoMes(d[1], d[2])

\* d - pd.Timedelta(days=1)
DiaAnterior(d) ==
    IF d[3] > 1 THEN <<d[1], d[2], d[3] - 1>>
    ELSE IF d[2] > 1 THEN <<d[1], d[2] - 1, DiasNoMes(d[1], d[2] - 1)>>
    ELSE <<d[1] - 1, 12, 31>>

DiaSeguinte(d) ==
    IF d[3] < DiasNoMes(d[1], d[2]) THEN <<d[1], d[2], d[3] + 1>>
    ELSE IF d[2] < 12 THEN <<d[1], d[2] + 1, 1>>
    ELSE <<d[1] + 1, 1, 1>>

\* a < b on dates
DataMenor(a, b) ==
    \/ a[1] < b[1]
    \/ a[1] = b[1] /\ a[2] < b[2]
    \/ a[1] = b[1] /\ a[2] = b[2] /\ a[3] < b[3]

\* strftime('%d/%m/%Y')
FormatarData(d) == ZeroPad(d[3], 2) \o "/" \o ZeroPad(d[2], 2) \o "/" \o ZeroPad(d[1], 4)

\* the three numbers of a text n/n/nnnn, as strptime reads %d, %m (one or
\* two digits) and %Y (four digits): <<matched, first, second, year>>
CamposData(s) ==
    LET p1 == Find("/", s)
        r == SubSeq(s, p1 + 1, Len(s))
        p2 == Find("/", r)
        a == SubSeq(s, 1, p1 - 1)
        b == SubSeq(r, 1, p2 - 1)
        c == SubSeq(r, p2 + 1, Len(r))
    IN  IF /\ p1 # 0
           /\ p2 # 0
           /\ AllDigits(a) /\ Len(a) <= 2
           /\ AllDigits(b) /\ Len(b) <= 2
           /\ AllDigits(c) /\ Len(c) = 4
        THEN <<TRUE, StrToNat(a), StrToNat(b), StrToNat(c)>>
        ELSE <<FALSE, 0, 0, 0>>

\* the date of a text YYYY-MM-DD, NaN when it is none
DataIso(s) ==
    LET d == <<StrToNat(SubSeq(s, 1, 4)), StrToNat(SubSeq(s, 6, 7)), StrToNat(SubSeq(s, 9, 10))>>
    IN  IF /\ Len(s) = 10
           /\ AllDigits(SubSeq(s, 1, 4)) /\ Char(s, 5) = "-"
           /\ AllDigits(SubSeq(s, 6, 7)) /\ Char(s, 8) = "-"
           /\ AllDigits(SubSeq(s, 9, 10))
           /\ DataValida(d)
        THEN [k |-> "date", v |-> d]
        ELSE NaN

\* pd.to_datetime(x, format=formato, errors='coerce') on one cell; formato
\* "" is the call without a format, which infers it (month first, as
\* dateutil does, then day first, then the ISO form)
DataDosCampos(f, texto, formato) ==
    LET dmy == <<f[4], f[3], f[2]>>
        mdy == <<f[4], f[2], f[3]>>
    IN  IF ~f[1] THEN (IF formato = "" THEN DataIso(texto) ELSE NaN)
        ELSE IF formato = "%d/%m/%Y"
             THEN (IF DataValida(dmy) THEN [k |-> "date", v |-> dmy] ELSE NaN)
        ELSE IF formato = "%m/%d/%Y"
             THEN (IF DataValida(mdy) THEN [k |-> "date", v |-> mdy] ELSE NaN)
        ELSE IF DataValida(mdy) THEN [k |-> "date", v |-> mdy]
        ELSE IF DataValida(dmy) THEN [k |-> "date", v |-> dmy]
        ELSE NaN

to_datetime(c, formato) ==
    CASE c.k = "date" -> c
      [] c.k = "str" -> DataDosCampos(CamposData(c.v), c.v, formato)
      [] c.k = "num" ->
            \* without a format a number counts nanoseconds from the epoch
            IF formato = "" THEN [k |-> "date", v |-> <<1970, 1, 1>>] ELSE NaN
      [] OTHER -> NaN

\* Series.isna().all()
TodasAusentes(cells) == \A i \in DOMAIN cells : IsNa(cells[i])

\* Series.astype(str): a column of dates (dtype datetime64) prints the date
\* alone and NaT for a missing cell, any other column prints str(x)
EhColunaDeDatas(cells) ==
    /\ \E i \in DOMAIN cells : cells[i].k = "date"
    /\ \A i \in DOMAIN cells : cells[i].k \in {"date", "nan", "none"}

AsTypeStr(cells) ==
    [i \in DOMAIN cells |->
        Str(IF EhColunaDeDatas(cells)
            THEN (IF cells[i].k = "date" THEN IsoData(cells[i].v) ELSE "NaT")
            ELSE PyStr(cells[i]))]

\* df[col] = df[col].astype(str); df.loc[df[col].isin(['', 'nan', 'None',
\* 'NaT']), col] = ''
PadronizarData(df, col) ==
    LET textos == AsTypeStr(Coluna(df, col))
    IN  AtribuirColuna(df, col,
            [i \in DOMAIN textos |->
                IF textos[i].v \in {"", "nan", "None", "NaT"} THEN Str("") ELSE textos[i]])

\* pd.to_numeric(x, errors='coerce') on one cell, then round(2), which
\* leaves a whole number as it is
to_numeric(c) ==
    CASE c.k = "num" -> c
      [] c.k = "bool" -> Num(IF c.v THEN 1 ELSE 0)
      [] c.k = "str" ->
            IF AllDigits(c.v) THEN Num(StrToNat(c.v))
            ELSE IF Len(c.v) > 1 /\ Char(c.v, 1) = "-" /\ AllDigits(Tail(c.v))
                 THEN Num(0 - StrToNat(Tail(c.v)))
            ELSE NaN
      [] OTHER -> NaN

(***************************************************************************)
(* ProcessadorDados: the six tables.                                        *)
(***************************************************************************)
colunas_possiveis_codigo == <<"Código", "Code", "ID", "Código Pai">>

\* the loop body over categorias_processadas['Nome']: <<codigo, nome limpo>>
ExtrairCodigoNome(item) ==
    IF IsStr(item) /\ Contains(" - ", item.v)
    THEN LET partes == SplitFirst(item.v, " - ")
         IN  <<Str(Strip(partes[1])), Str(Strip(partes[2]))>>
    ELSE <<Str(""), Str(IF item.k = "none" THEN "" ELSE PyStr(item))>>

\* "Garantir que temos coluna Codigo"
ComCodigo(cat, aliases) ==
    IF HasCol(cat, "Codigo") THEN cat
    ELSE IF aliases # <<>>
         THEN AtribuirColuna(cat, "Codigo", Coluna(cat, aliases[1]))
    ELSE IF HasCol(cat, "Nome")
         THEN AtribuirColuna(
                  AtribuirColuna(cat, "Codigo",
                      [i \in 1..Len(cat.rows) |-> ExtrairCodigoNome(cat.rows[i]["Nome"])[1]]),
                  "Nome",
                  [i \in 1..Len(cat.rows) |-> ExtrairCodigoNome(cat.rows[i]["Nome"])[2]])
    ELSE AtribuirColuna(cat, "Codigo", [i \in 1..Len(cat.rows) |-> Num(i)])

\* "Garantir que temos coluna Nome"
ComNome(com_codigo, parecidas) ==
    IF HasCol(com_codigo, "Nome") THEN com_codigo
    ELSE IF parecidas # <<>>
         THEN AtribuirColuna(com_codigo, "Nome", Coluna(com_codigo, parecidas[1]))
    ELSE AtribuirColuna(com_codigo, "Nome",
            [i \in 1..Len(com_codigo.rows) |->
                Str("Categoria " \o AsTypeStr(Coluna(com_codigo, "Codigo"))[i].v)])

ColunasParecidasComNome(df) ==
    SelectSeqP(df.cols, {col \in Range(df.cols) : Contains("nome", Lower(col))})

\* categorias_processadas[colunas_finais]
ManterColunasFinais(com_nome) ==
    Projetar(com_nome,
        <<"Codigo", "Nome">> \o
        SelectSeqP(com_nome.cols,
            {col \in Range(com_nome.cols) :
                /\ col \notin {"Codigo", "Nome"}
                /\ Lower(col) \in {"tipo", "ativo", "descricao"}}))

ComNomeDe(com_codigo) == ComNome(com_codigo, ColunasParecidasComNome(com_codigo))

_processar_categorias(cat) ==
    ManterColunasFinais(
        ComNomeDe(ComCodigo(cat, SelectSeqP(colunas_possiveis_codigo, Range(cat.cols)))))

_processar_centros_custo(lanc) ==
    LET colunas_centro_custo ==
            SelectSeqP(lanc.cols,
                {col \in Range(lanc.cols) :
                    Contains("centro", Lower(col)) /\ Contains("custo", Lower(col))})
    IN  IF colunas_centro_custo = <<>> THEN TabelaVazia(<<"Codigo", "Nome", "Ativo">>)
        ELSE LET centros_unicos ==
                    Unique(DropNa(Coluna(lanc, colunas_centro_custo[1])))
             IN  [cols |-> <<"Codigo", "Nome", "Ativo">>,
                  rows |-> [i \in 1..Len(centros_unicos) |->
                              ("Codigo" :> Num(i)) @@ ("Nome" :> centros_unicos[i])
                              @@ ("Ativo" :> Str("Sim"))]]

\* pd.to_datetime on a column
ConverterColuna(cells, formato) ==
    [i \in DOMAIN cells |-> to_datetime(cells[i], formato)]

\* if dados_com_data[coluna_data].isna().all(): convert again
ConverterSeAusentes(cells, formato) ==
    IF TodasAusentes(cells) THEN ConverterColuna(cells, formato) ELSE cells

\* the three conversions of the date column, each over the column the one
\* before it left
ConverterDatas(df, coluna_data) ==
    AtribuirColuna(df, coluna_data,
        ConverterSeAusentes(
            ConverterSeAusentes(
                ConverterColuna(Coluna(df, coluna_data), "%d/%m/%Y"),
                "%m/%d/%Y"),
            ""))

\* Series.min() of a column of dates: the earliest one, NaT when there is none
MinData(cells) ==
    LET datas == {cells[i].v : i \in {j \in DOMAIN cells : cells[j].k = "date"}}
    IN  IF datas = {} THEN NaN
        ELSE [k |-> "date",
              v |-> CHOOSE d \in datas : \A e \in datas \ {d} : DataMenor(d, e)]

\* movimentacoes_conta[coluna_data].min()
PrimeiraData(dados_com_data, coluna_conta, coluna_data, conta) ==
    MinData(SelectSeqP(
        [i \in 1..Len(dados_com_data.rows) |->
            IF dados_com_data.rows[i][coluna_conta] = conta
            THEN dados_com_data.rows[i][coluna_data]
            ELSE NaN],
        {c \in Range(Coluna(dados_com_data, coluna_data)) : ~IsNa(c)}))

DataInicialStr(primeira_data) ==
    IF ~IsNa(primeira_data)
    THEN FormatarData(DiaAnterior(primeira_data.v))
    ELSE ""

\* the loop over the accounts and the table built from it
ContasComData(dados_com_data, coluna_conta, coluna_data) ==
    LET contas == Unique(DropNa(Coluna(dados_com_data, coluna_conta)))
    IN  IF contas = <<>>
        THEN \* pd.DataFrame([]) has no column; then 'Codigo' is added
             TabelaVazia(<<"Codigo">>)
        ELSE [cols |-> <<"Nome", "Tipo", "Ativo", "DataInicial", "Codigo">>,
              rows |-> [i \in 1..Len(contas) |->
                          ("Nome" :> contas[i]) @@ ("Tipo" :> Num(1))
                          @@ ("Ativo" :> Str("Sim"))
                          @@ ("DataInicial" :>
                                Str(DataInicialStr(
                                        PrimeiraData(dados_com_data, coluna_conta,
                                                     coluna_data, contas[i]))))
                          @@ ("Codigo" :> Num(i))]]

ContasSemData(contas_unicas) ==
    [cols |-> <<"Codigo", "Nome", "Tipo", "Ativo", "DataInicial">>,
     rows |-> [i \in 1..Len(contas_unicas) |->
                 ("Codigo" :> Num(i)) @@ ("Nome" :> contas_unicas[i])
                 @@ ("Tipo" :> Num(1)) @@ ("Ativo" :> Str("Sim"))
                 @@ ("DataInicial" :> Str(""))]]

ContasDasColunas(lanc, colunas_conta, colunas_data) ==
    IF colunas_conta = <<>>
    THEN TabelaVazia(<<"Codigo", "Nome", "Tipo", "Ativo", "DataInicial">>)
    ELSE IF colunas_data = <<>>
    THEN ContasSemData(Unique(DropNa(Coluna(lanc, colunas_conta[1]))))
    ELSE ContasComData(ConverterDatas(lanc, colunas_data[1]),
                       colunas_conta[1], colunas_data[1])

_processar_contas_correntes(lanc) ==
    ContasDasColunas(lanc,
        SelectSeqP(lanc.cols,
            {col \in Range(lanc.cols) :
                Contains("conta", Lower(col)) \/ Contains("banco", Lower(col))}),
        SelectSeqP(lanc.cols,
            {col \in Range(lanc.cols) :
                Contains("data", Lower(col)) /\ Lower(col) # "datacompetencia"}))

palavras_contato == <<"contato", "cliente", "fornecedor", "pessoa", "empresa">>

colunas_contatos ==
    <<"Nome", "Tipo", "Documento", "E-mail", "Enviar e-mail?",
      "Telefone Residencial", "Telefone Comercial", "Telefone Celular",
      "Contribuinte ICMS?", "Inscrição Estadual", "Inscrição Municipal">>

\* the rows built from contatos_unicos
ContatosDaLista(contatos_data) ==
    IF contatos_data = <<>>
    THEN \* pd.DataFrame([]): no rows and no columns
         TabelaVazia(<<>>)
    ELSE [cols |-> colunas_contatos,
          rows |-> [i \in 1..Len(contatos_data) |->
                      [c \in Range(colunas_contatos) |->
                          IF c = "Nome" THEN Str(Strip(PyStr(contatos_data[i])))
                          ELSE IF c = "Tipo" THEN Num(0)
                          ELSE Str("")]]]

ContatosDosUnicos(contatos_unicos) ==
    ContatosDaLista(
        SelectSeqP(contatos_unicos,
            {c \in Range(contatos_unicos) : ~IsNa(c) /\ Strip(PyStr(c)) # ""}))

ContatosDaSerie(serie) ==
    ContatosDosUnicos(Unique(SelectSeqP(serie, Range(serie) \ {Str("")})))

ContatosDasColunas(lanc, colunas_contato) ==
    IF colunas_contato = <<>> THEN TabelaVazia(colunas_contatos)
    ELSE ContatosDaSerie(DropNa(Coluna(lanc, colunas_contato[1])))

ColunasContato(lanc, por_palavra) ==
    IF por_palavra = <<>> /\ HasCol(lanc, "Contato") THEN <<"Contato">> ELSE por_palavra

_processar_contatos(lanc) ==
    ContatosDasColunas(lanc,
        ColunasContato(lanc,
            SelectSeqP(lanc.cols,
                {col \in Range(lanc.cols) :
                    \E i \in 1..Len(palavras_contato) :
                        Contains(palavras_contato[i], Lower(col))})))

\* the columns of lancamentos_vyco in the order they are assigned, the
\* source column each is copied from (<<>> when it has none) and the scalar
\* it is set to otherwise
colunas_lancamentos_vyco ==
    <<"Confirmado", "Data", "Valor", "Categoria", "Data Emissão", "Valor Emissão",
      "Repetição", "Total Parcelas", "Descrição", "Centro de Custo",
      "Conta Corrente", "Contato">>

origem_lancamentos ==
    <<(<<"Confirmado">>), (<<"Data">>), (<<"Valor">>), (<<"Categoria">>), (<<>>), (<<>>),
      (<<>>), (<<"Parcela">>), (<<"Descricao">>), (<<"CentroDeCusto">>),
      (<<"Conta">>), (<<"Contato">>)>>

padrao_lancamentos ==
    <<Str("Sim"), Str(""), Num(0), Str(""), None, None,
      Num(0), Num(1), Str(""), None, None, None>>

\* lancamentos_vyco starts with no row: a scalar assigned before the first
\* copied column makes a column without cells, which is filled with NaN when
\* the first copied column brings its rows; a scalar assigned after it is
\* repeated in every row
_processar_lancamentos(lanc) ==
    LET copiada(j) ==
            origem_lancamentos[j] # <<>> /\ HasCol(lanc, origem_lancamentos[j][1])
        copiadas == {j \in 1..Len(colunas_lancamentos_vyco) : copiada(j)}
        n == IF copiadas = {} THEN 0 ELSE Len(lanc.rows)
        primeira == IF copiadas = {} THEN 0
                    ELSE CHOOSE j \in copiadas : \A l \in copiadas : j <= l
        celula(i, j) ==
            IF copiada(j) THEN lanc.rows[i][origem_lancamentos[j][1]]
            ELSE IF j < primeira THEN NaN
            ELSE padrao_lancamentos[j]
        preenchida(i, j) ==
            IF colunas_lancamentos_vyco[j] = "Confirmado" THEN FillNa(celula(i, j), Str("Sim"))
            ELSE IF colunas_lancamentos_vyco[j] = "Valor" THEN FillNa(celula(i, j), Num(0))
            ELSE IF colunas_lancamentos_vyco[j] = "Categoria" THEN FillNa(celula(i, j), Str(""))
            ELSE celula(i, j)
    IN  [cols |-> colunas_lancamentos_vyco,
         rows |-> [i \in 1..n |->
                     [c \in Range(colunas_lancamentos_vyco) |->
                        preenchida(i, IndexOf(colunas_lancamentos_vyco, c))]]]

colunas_obrigatorias == <<"Data", "Valor", "Descrição", "Conta Débito", "Conta Crédito">>

\* the loop body without the two strip() calls
SepararMovimentacaoSemStrip(movimentacao) ==
    IF IsNa(movimentacao) \/ ~Contains(" para ", PyStr(movimentacao))
    THEN <<Str(""), Str("")>>
    ELSE LET partes == SplitFirst(PyStr(movimentacao), " para ")
         IN  <<Str(partes[1]), Str(partes[2])>>

\* the loop body over transferencias_vyco['Movimentação']: <<débito, crédito>>
SepararMovimentacao(movimentacao) ==
    IF IsNa(movimentacao) \/ ~Contains(" para ", PyStr(movimentacao))
    THEN <<Str(""), Str("")>>
    ELSE LET partes == SplitFirst(PyStr(movimentacao), " para ")
         IN  <<Str(Strip(partes[1])), Str(Strip(partes[2]))>>

RECURSIVE CompletarObrigatorias(_, _, _)
\* the loop over colunas_obrigatorias from position j on; agora is the date
\* datetime.now() gives
CompletarObrigatorias(df, j, agora) ==
    IF j > Len(colunas_obrigatorias) THEN df
    ELSE LET coluna == colunas_obrigatorias[j]
             proxima ==
                IF HasCol(df, coluna) THEN df
                ELSE IF coluna = "Data" THEN AtribuirEscalar(df, coluna, Str(FormatarData(agora)))
                ELSE IF coluna = "Valor" THEN AtribuirEscalar(df, coluna, Num(0))
                ELSE AtribuirEscalar(df, coluna, Str(""))
         IN  CompletarObrigatorias(proxima, j + 1, agora)

_processar_transferencias(transf, agora) ==
    IF transf.cols = <<>> \/ transf.rows = <<>>
    THEN TabelaVazia(colunas_obrigatorias)
    ELSE LET n == Len(transf.rows)
             partes == [i \in 1..n |->
                          SepararMovimentacao(transf.rows[i]["Movimentação"])]
             separadas ==
                IF HasCol(transf, "Movimentação")
                THEN Remover(
                        AtribuirColuna(
                            AtribuirColuna(transf, "Conta Débito",
                                           [i \in 1..n |-> partes[i][1]]),
                            "Conta Crédito", [i \in 1..n |-> partes[i][2]]),
                        "Movimentação")
                ELSE transf
         IN  Projetar(CompletarObrigatorias(separadas, 1, agora), colunas_obrigatorias)

\* the keys of dados_processados, in the order the dict is built
Tipos ==
    <<"categorias", "centros_custo", "contas_correntes", "contatos",
      "lancamentos", "transferencias">>

\* raise |-> TRUE: the call raised Exception("Erro ao processar dados: ...").
\* A missing table (None) has no method copy() and no attribute empty; a
\* header that is not text has no method lower().
processar_todos_os_dados(lanc, transf, cat, mapeamento, agora) ==
    IF \/ lanc = None \/ transf = None \/ cat = None
       \/ TemNomeNaoTexto(lanc)
       \/ TemNomeNaoTexto(cat)
    THEN [raise |-> TRUE, ret |-> None]
    ELSE LET dados_lancamentos_processados ==
                IF mapeamento # <<>> THEN _aplicar_mapeamento_categorias(lanc, mapeamento)
                ELSE lanc
         IN  [raise |-> FALSE,
              ret |-> [categorias |-> _processar_categorias(cat),
                       centros_custo |-> _processar_centros_custo(dados_lancamentos_processados),
                       contas_correntes |-> _processar_contas_correntes(dados_lancamentos_processados),
                       contatos |-> _processar_contatos(dados_lancamentos_processados),
                       lancamentos |-> _processar_lancamentos(dados_lancamentos_processados),
                       transferencias |-> _processar_transferencias(transf, agora)]]

(***************************************************************************)
(* GeradorExcel: formatting and generation.                                 *)
(***************************************************************************)
RECURSIVE FindLast(_, _)
\* 1-based index of the last occurrence of sub in s, 0 when there is none
FindLast(sub, s) ==
    IF Len(s) < Len(sub) THEN 0
    ELSE IF StartsAt(sub, s, Len(s) - Len(sub) + 1) THEN Len(s) - Len(sub) + 1
    ELSE FindLast(sub, SubSeq(s, 1, Len(s) - 1))

\* _calcular_codigo_pai cutting at the first dot instead of the last one
_calcular_codigo_pai_no_primeiro_ponto(codigo) ==
    LET texto == Strip(IF IsStr(codigo) THEN codigo.v ELSE PyStr(codigo))
    IN  IF ~Contains(".", texto) THEN ""
        ELSE SubSeq(texto, 1, Find(".", texto) - 1)

\* '.'.join(codigo.split('.')[:-1]) is the text before the last dot
_calcular_codigo_pai(codigo) ==
    LET texto == Strip(IF IsStr(codigo) THEN codigo.v ELSE PyStr(codigo))
    IN  IF ~Contains(".", texto) THEN ""
        ELSE SubSeq(texto, 1, FindLast(".", texto) - 1)

RECURSIVE AdicionarFaltantes(_, _, _, _)
\* for coluna in colunas: if coluna not in df.columns: df[coluna] =
\* padrao[coluna], from position j of the list on
AdicionarFaltantes(df, colunas, padrao, j) ==
    IF j > Len(colunas) THEN df
    ELSE AdicionarFaltantes(
            IF HasCol(df, colunas[j]) THEN df
            ELSE AtribuirEscalar(df, colunas[j], padrao[colunas[j]]),
            colunas, padrao, j + 1)

RECURSIVE AtribuirEscalares(_, _, _, _)
\* df[coluna] = padrao[coluna] for each coluna of the list from position j on
AtribuirEscalares(df, colunas, padrao, j) ==
    IF j > Len(colunas) THEN df
    ELSE AtribuirEscalares(AtribuirEscalar(df, colunas[j], padrao[colunas[j]]),
                           colunas, padrao, j + 1)

\* _garantir_colunas without the reordering: the columns stay in the order
\* of the table
_garantir_colunas_na_ordem_da_tabela(dados, colunas_esperadas) ==
    LET dados_final ==
            AdicionarFaltantes(dados, colunas_esperadas,
                               [c \in Range(colunas_esperadas) |-> Str("")], 1)
    IN  Projetar(dados_final,
                 SelectSeqP(dados_final.cols, Range(colunas_esperadas)))

_garantir_colunas(dados, colunas_esperadas) ==
    LET dados_final ==
            AdicionarFaltantes(dados, colunas_esperadas,
                               [c \in Range(colunas_esperadas) |-> Str("")], 1)
        colunas_existentes ==
            SelectSeqP(colunas_esperadas, Range(dados_final.cols))
    IN  Projetar(dados_final, colunas_existentes)

\* what a formatter gives: the table, or raise |-> TRUE for an exception
Formatado(df) == [raise |-> FALSE, ret |-> df]
Levantou == [raise |-> TRUE, ret |-> None]

colunas_categorias ==
    <<"Código", "Nome", "Código Pai", "Competência por Parcela",
      "Desconto %", "Desconto R$", "Dias para vencimento",
      "Gera Boleto", "Gera Nota Fiscal", "Gera Recibo">>

padrao_categorias ==
    [c \in Range(colunas_categorias) \ {"Código", "Nome", "Código Pai"} |->
        IF c = "Competência por Parcela" THEN Str("")
        ELSE IF c \in {"Desconto %", "Desconto R$", "Dias para vencimento"} THEN Num(0)
        ELSE Str("Não")]

_formatar_categorias(dados) ==
    IF ~HasCol(dados, "Codigo") \/ ~HasCol(dados, "Nome") THEN Levantou
    ELSE LET renomeada == Renomear(dados, "Codigo", "Código")
             com_pai ==
                AtribuirColuna(renomeada, "Código Pai",
                    [i \in 1..Len(renomeada.rows) |->
                        Str(_calcular_codigo_pai(renomeada.rows[i]["Código"]))])
             \* the seven columns set to a scalar, one after the other
             completa ==
                AtribuirEscalares(com_pai,
                    SubSeq(colunas_categorias, 4, Len(colunas_categorias)),
                    padrao_categorias, 1)
         IN  Formatado(Projetar(completa, colunas_categorias))

_formatar_centros_custo(dados) ==
    Formatado(_garantir_colunas(dados, <<"Codigo", "Nome", "Ativo">>))

colunas_contas_correntes == <<"Nome", "Tipo", "Data Inicial", "Valor Inicial">>

\* if col in dados_formatados.columns: dados_formatados.drop(col, axis=1)
SemColuna(df, col) == IF HasCol(df, col) THEN Remover(df, col) ELSE df

\* "Usar DataInicial calculada ou deixar vazio"
ComDataInicial(df) ==
    IF HasCol(df, "DataInicial")
    THEN Remover(AtribuirColuna(df, "Data Inicial", Coluna(df, "DataInicial")), "DataInicial")
    ELSE AtribuirEscalar(df, "Data Inicial", Str(""))

\* dados_formatados[colunas_ordenadas]
NaOrdemDoModelo(df) ==
    IF \A c \in Range(colunas_contas_correntes) : HasCol(df, c)
    THEN Formatado(Projetar(df, colunas_contas_correntes))
    ELSE \* KeyError: "['Nome', 'Tipo'] not in index"
         Levantou

_formatar_contas_correntes(dados) ==
    NaOrdemDoModelo(
        SemColuna(
            AtribuirEscalar(
                PadronizarData(ComDataInicial(SemColuna(dados, "Codigo")), "Data Inicial"),
                "Valor Inicial", Num(0)),
            "Ativo"))

padrao_contatos ==
    [c \in Range(colunas_contatos) |->
        IF c = "Tipo" THEN Num(0)
        ELSE IF c \in {"Enviar e-mail?", "Contribuinte ICMS?"} THEN Falso
        ELSE Str("")]

_formatar_contatos(dados) ==
    Formatado(Projetar(AdicionarFaltantes(dados, colunas_contatos, padrao_contatos, 1),
                       colunas_contatos))

\* a value that does not parse is written as zero
ColunaNumericaComZero(df, col, se_ausente) ==
    IF HasCol(df, col)
    THEN AtribuirColuna(df, col,
            [i \in 1..Len(df.rows) |-> FillNa(to_numeric(df.rows[i][col]), Num(0))])
    ELSE df

\* df[col] = pd.to_numeric(df[col], errors='coerce') and what follows it
ColunaNumerica(df, col, se_ausente) ==
    IF HasCol(df, col)
    THEN AtribuirColuna(df, col,
            [i \in 1..Len(df.rows) |-> FillNa(to_numeric(df.rows[i][col]), se_ausente)])
    ELSE df

colunas_lancamentos ==
    <<"Confirmado", "Data Emissão", "Data", "Valor Emissão", "Valor",
      "Repetição", "Total Parcelas", "Descrição", "Categoria",
      "Centro de Custo", "Conta Corrente", "Contato">>

_formatar_lancamentos(dados) ==
    LET com_data == IF HasCol(dados, "Data") THEN PadronizarData(dados, "Data") ELSE dados
        com_valor == ColunaNumerica(com_data, "Valor", NaN)
        com_emissao == ColunaNumerica(com_valor, "Valor Emissão", NaN)
        com_repeticao == ColunaNumerica(com_emissao, "Repetição", Num(0))
        com_parcelas == ColunaNumerica(com_repeticao, "Total Parcelas", Num(1))
    IN  Formatado(_garantir_colunas(com_parcelas, colunas_lancamentos))

_formatar_transferencias(dados) ==
    LET com_data == IF HasCol(dados, "Data") THEN PadronizarData(dados, "Data") ELSE dados
        com_valor == ColunaNumerica(com_data, "Valor", NaN)
        completa == AdicionarFaltantes(com_valor, colunas_obrigatorias,
                                       [c \in Range(colunas_obrigatorias) |-> Str("")], 1)
    IN  Formatado(Projetar(completa, colunas_obrigatorias))

\* an exception of the formatter is caught and the table is returned as it
\* came (st_warning |-> TRUE)
FormatarPorTipo(tipo_planilha, dados) ==
    CASE tipo_planilha = "categorias" -> _formatar_categorias(dados)
      [] tipo_planilha = "centros_custo" -> _formatar_centros_custo(dados)
      [] tipo_planilha = "contas_correntes" -> _formatar_contas_correntes(dados)
      [] tipo_planilha = "contatos" -> _formatar_contatos(dados)
      [] tipo_planilha = "lancamentos" -> _formatar_lancamentos(dados)
      [] tipo_planilha = "transferencias" -> _formatar_transferencias(dados)
      [] OTHER -> Formatado(dados)

\* the except clause: r is what the formatter gave
FormatadoOuComoVeio(r, dados) ==
    IF r.raise THEN [ret |-> dados, st_warning |-> TRUE]
    ELSE [ret |-> r.ret, st_warning |-> FALSE]

_aplicar_formatacao_especifica(tipo_planilha, dados) ==
    FormatadoOuComoVeio(FormatarPorTipo(tipo_planilha, dados), dados)

mapeamento_arquivos ==
    [t \in Range(Tipos) |->
        CASE t = "categorias" -> "Cadastros - Categorias.xlsx"
          [] t = "centros_custo" -> "Cadastros - Centros de Custo.xlsx"
          [] t = "contas_correntes" -> "Cadastros - Contas Corrente.xlsx"
          [] t = "contatos" -> "Cadastros - Contatos.xlsx"
          [] t = "lancamentos" -> "Financeiro - Lançamentos.xlsx"
          [] t = "transferencias" -> "Financeiro - Transferências.xlsx"]

\* the directory modelos_vyco holds no model file: os.path.exists is false
\* and the table is returned as it came
_aplicar_estrutura_modelo(tipo_planilha, dados) == dados

\* a character a worksheet cannot hold (openpyxl raises
\* IllegalCharacterError for the control characters other than tab, line
\* feed and carriage return); the form feed stands for all of them
CaractereIlegal == "\f"

\* dados.to_excel(writer, ...) raises
to_excel_levanta(dados) ==
    \E i \in 1..Len(dados.rows) : \E c \in Range(dados.cols) :
        IsStr(dados.rows[i][c]) /\ Contains(CaractereIlegal, dados.rows[i][c].v)

\* the bytes of the workbook are written as the table they hold; b'' (<<>>)
\* after an exception, which is reported by st.error
BytesDe(dados_finais) ==
    IF to_excel_levanta(dados_finais) THEN <<>> ELSE <<dados_finais>>

_gerar_planilha_memoria(tipo_planilha, dados) ==
    BytesDe(_aplicar_estrutura_modelo(
                tipo_planilha, _aplicar_formatacao_especifica(tipo_planilha, dados).ret))

\* if conteudo_bytes: arquivos_memoria[nome_arquivo] = conteudo_bytes
ArquivoDe(nome_arquivo, conteudo_bytes) ==
    IF conteudo_bytes # <<>> THEN <<(<<nome_arquivo, conteudo_bytes>>)>> ELSE <<>>

RECURSIVE GerarDe(_, _)
\* the loop over mapeamento_arquivos.items() from position j of Tipos on
GerarDe(dados_processados, j) ==
    IF j > Len(Tipos) THEN <<>>
    ELSE ArquivoDe(mapeamento_arquivos[Tipos[j]],
                   _gerar_planilha_memoria(Tipos[j], dados_processados[Tipos[j]]))
         \o GerarDe(dados_processados, j + 1)

\* the dict file name -> bytes
gerar_planilhas_memoria(dados_processados) == GerarDe(dados_processados, 1)

(***************************************************************************)
(* ManipuladorArquivos.ler_excel                                            *)
(***************************************************************************)
\* df.dropna(how='all'), df.dropna(axis=1, how='all'), df.columns =
\* df.columns.str.strip(), df.reset_index(drop=True)
_limpar_dados_basicos(df) ==
    LET linhas == SelectSeqP(df.rows,
                    {r \in Range(df.rows) : \E c \in Range(df.cols) : ~IsNa(r[c])})
        colunas == SelectSeqP(df.cols,
                    {c \in Range(df.cols) : \E i \in 1..Len(linhas) : ~IsNa(linhas[i][c])})
        nome(c) == IF c = NomeNaoTexto THEN c ELSE Strip(c)
    IN  [cols |-> [j \in 1..Len(colunas) |-> nome(colunas[j])],
         rows |-> [i \in 1..Len(linhas) |->
                     [n \in {nome(c) : c \in Range(colunas)} |->
                        linhas[i][CHOOSE c \in Range(colunas) : nome(c) = n]]]]

\* raise |-> TRUE: Exception("Erro ao ler arquivo Excel: ..."); the
\* accessor .str raises when no header at all is text
LeituraDe(limpo) ==
    IF limpo.cols # <<>> /\ \A c \in Range(limpo.cols) : c = NomeNaoTexto
    THEN [raise |-> TRUE, ret |-> None]
    ELSE [raise |-> FALSE, ret |-> limpo]

ler_excel(arquivo) == LeituraDe(_limpar_dados_basicos(arquivo))

(***************************************************************************)
(* app.py: steps 3 and 4 of the wizard.                                     *)
(***************************************************************************)
coluna_lancamentos_fixa == "Categoria"
coluna_plano_fixa == "Nome"
Selecione == "-- Selecione --"

erro_coluna(lanc, cat) ==
    ~HasCol(lanc, coluna_lancamentos_fixa) \/ ~HasCol(cat, coluna_plano_fixa)

\* the labels step 3 asks the operator to map
InconsistentesDaTela(lanc, cat) ==
    IF erro_coluna(lanc, cat) THEN <<>>
    ELSE encontrar_categorias_inconsistentes(
            lanc, cat, coluna_lancamentos_fixa, coluna_plano_fixa).ret

\* the options of each selectbox after the placeholder; no selectbox is
\* drawn when there is none
OpcoesDaTela(cat) == obter_categorias_validas(cat, coluna_plano_fixa)

\* the mapping is replaced by what the selectboxes show
GravarSoOQueATelaMostra(mapeamento, inconsistentes, escolhas, j) == escolhas

RECURSIVE GravarSelecoes(_, _, _, _)
\* the loop over categorias_inconsistentes from position j on: each
\* selectbox that shows a category writes it into the mapping
GravarSelecoes(mapeamento, inconsistentes, escolhas, j) ==
    IF j > Len(inconsistentes) THEN mapeamento
    ELSE GravarSelecoes(
            IF HasKey(escolhas, inconsistentes[j])
            THEN DictSet(mapeamento, inconsistentes[j], Lookup(escolhas, inconsistentes[j]))
            ELSE mapeamento,
            inconsistentes, escolhas, j + 1)

categorias_pendentes(lanc, cat, mapeamento) ==
    IF erro_coluna(lanc, cat) THEN <<>>
    ELSE LET categorias_inconsistentes ==
                encontrar_categorias_inconsistentes(
                    lanc, cat, coluna_lancamentos_fixa, coluna_plano_fixa).ret
         IN  SelectSeqP(categorias_inconsistentes,
                {c \in Range(categorias_inconsistentes) :
                    ~HasKey(mapeamento, c) \/ Lookup(mapeamento, c) = ""})

\* the run of step 4: what it computes and what it shows
\* if arquivos_memoria: the success screen; else "Nenhuma planilha foi gerada"
TelaDosArquivos(dados_processados, arquivos) ==
    [dados_processados |-> dados_processados, arquivos_memoria |-> arquivos,
     tela |-> IF arquivos # <<>> THEN "sucesso" ELSE "nenhuma"]

TelaDaGeracao(dados_processados) ==
    IF dados_processados.raise
    THEN [dados_processados |-> dados_processados, arquivos_memoria |-> None,
          tela |-> "excecao"]
    ELSE TelaDosArquivos(dados_processados, gerar_planilhas_memoria(dados_processados.ret))

etapa_geracao_planilhas(lanc, transf, cat, mapeamento, agora) ==
    TelaDaGeracao(processar_todos_os_dados(lanc, transf, cat, mapeamento, agora))

(***************************************************************************)
(* Inputs of the decomposition.                                             *)
(***************************************************************************)
Alfabeto == {"1", ".", " ", "-", ":", "A"}

RECURSIVE Textos(_)
\* every string over Alfabeto of length at most n
Textos(n) ==
    IF n = 0 THEN {""}
    ELSE LET menores == Textos(n - 1)
         IN  menores \cup {s \o c : s \in menores, c \in Alfabeto}

RotulosExemplo ==
    {"2.2.1 - AGUA", "AGUA", "A :: B", "A: B - C", "2.2.1 AGUA", "A1 AGUA",
     "A1.2 AGUA", "1 | B", "1 " \o EnDash \o " B", "1 " \o EmDash \o " B",
     "  2.1  Luz e Gas ", "AB1 AGUA", "1.A AGUA", "1\tB", "1 A\nB",
     "A1.1 A"}

Rotulos == Textos(MaxRotulo) \cup RotulosExemplo

\* arguments that are not strings: None, a missing-value marker, numbers, a
\* boolean and a date value
NaoTextos == {None, NaN, Num(0), Num(12), Num(-3), Falso, Timestamp(2024, 1, 5)}

(***************************************************************************)
(* Specification of the decomposition: one call of _limpar_categoria.       *)
(***************************************************************************)
SessaoVazia ==
    /\ etapa_atual = 0
    /\ dados_lancamentos = None
    /\ dados_transferencias = None
    /\ dados_categorias = None
    /\ mapeamento_categorias = <<>>
    /\ selecao = <<>>

\* nothing has run: no screen, no files, no formatted tables
SemExecucao ==
    /\ tela = ""
    /\ arquivos_memoria = None
    /\ hoje = 0
    /\ anterior = None
    /\ planilhas = None

InitLimpar ==
    /\ SessaoVazia
    /\ SemExecucao
    /\ entrada \in {Str(s) : s \in Rotulos} \cup NaoTextos
    /\ saida = None
    /\ fase = "chamada"

ChamarLimpar ==
    /\ fase = "chamada"
    /\ saida' = _limpar_categoria(entrada)
    /\ fase' = "retorno"
    /\ UNCHANGED <<entrada, sessao, execucao>>

NextLimpar == ChamarLimpar

SpecLimpar == InitLimpar /\ [][NextLimpar]_vars


(***************************************************************************)
(* Enumerated tables and dicts.                                             *)
(***************************************************************************)
RECURSIVE SeqsAte(_, _)
\* every sequence over S of length at most n
SeqsAte(S, n) ==
    IF n = 0 THEN {<<>>}
    ELSE LET menores == SeqsAte(S, n - 1)
         IN  menores \cup {Append(q, x) : q \in menores, x \in S}

\* every row over the columns cols whose cell in column c is in V[c]
Linhas(cols, V) ==
    {f \in [Range(cols) -> UNION {V[c] : c \in Range(cols)}] :
        \A c \in Range(cols) : f[c] \in V[c]}

\* every table with the columns cols and at most n rows
Tabelas(cols, V, n) ==
    {[cols |-> cols, rows |-> r] : r \in SeqsAte(Linhas(cols, V), n)}

\* a table built from one column of text cells
TabelaDe(col, textos) ==
    [cols |-> <<col>>, rows |-> [i \in 1..Len(textos) |-> (col :> textos[i])]]

\* every dict with at most n entries, keys in K and values in W
Dicts(K, W, n) ==
    {d \in SeqsAte(K \X W, n) : \A i, j \in 1..Len(d) : i # j => d[i][1] # d[j][1]}

(***************************************************************************)
(* Specification of one call of encontrar_categorias_inconsistentes, as     *)
(* teste_modulos.py (no column arguments) and app.py ("Categoria", "Nome")  *)
(* make it.                                                                 *)
(***************************************************************************)
LancamentosExemplo ==
    TabelaDe("Categoria", <<Str("Receita Vendas"), Str("Despesa X"), Str("Receita Vendas")>>)
PlanoExemplo == TabelaDe("Nome", <<Str("2.01 - Despesa X")>>)

LancamentosInc ==
    Tabelas(<<"Categoria">>, [c \in {"Categoria"} |-> {Str("A"), Str("a"), Str("B"), NaN}], MaxLinhas)
    \cup Tabelas(<<"Descricao">>, [c \in {"Descricao"} |-> {Str("A")}], 1)
    \cup {LancamentosExemplo}

PlanosInc ==
    Tabelas(<<"Nome">>, [c \in {"Nome"} |-> {Str("A"), Str("1 - B"), Str("2 a"), NaN}], MaxLinhas)
    \cup Tabelas(<<"Codigo">>, [c \in {"Codigo"} |-> {Str("1.1")}], 1)
    \cup {PlanoExemplo}

InitInconsistentes ==
    /\ SessaoVazia
    /\ SemExecucao
    /\ entrada \in [lanc : LancamentosInc, cat : PlanosInc,
                    colunas : {<<"Categoria", "Nome">>, <<"", "">>}]
    /\ saida = None
    /\ fase = "chamada"

ChamarInconsistentes ==
    /\ fase = "chamada"
    /\ saida' = encontrar_categorias_inconsistentes(
                    entrada.lanc, entrada.cat, entrada.colunas[1], entrada.colunas[2])
    /\ fase' = "retorno"
    /\ UNCHANGED <<entrada, sessao, execucao>>

NextInconsistentes == ChamarInconsistentes

SpecInconsistentes == InitInconsistentes /\ [][NextInconsistentes]_vars

(***************************************************************************)
(* Specification of one call of validar_mapeamento_completo.                *)
(***************************************************************************)
InitValidar ==
    /\ SessaoVazia
    /\ SemExecucao
    /\ entrada \in [mapeamento : Dicts({"A", "C", "Z"}, {"", "B"}, MaxMapa + 1),
                    categorias_inconsistentes :
                        {q \in SeqsAte({"A", "C"}, 2) : Len(q) = Cardinality(Range(q))}]
    /\ saida = None
    /\ fase = "chamada"

ChamarValidar ==
    /\ fase = "chamada"
    /\ saida' = validar_mapeamento_completo(entrada.mapeamento, entrada.categorias_inconsistentes)
    /\ fase' = "retorno"
    /\ UNCHANGED <<entrada, sessao, execucao>>

NextValidar == ChamarValidar

SpecValidar == InitValidar /\ [][NextValidar]_vars

(***************************************************************************)
(* Specification of one call of _sugerir_categoria_similar.                 *)
(***************************************************************************)
RotulosAntigos ==
    {"Agua", "AGUA", "agua  fria", "Luz", "Luz Agua", "Aguardente", "Conta de Luz", ""}

RotulosValidos ==
    {"Agua", "agua", "Aguardente", "Luz Agua", "gua", "Luz", "Contas"}

InitSugerir ==
    /\ SessaoVazia
    /\ SemExecucao
    /\ entrada \in [categoria_antiga : RotulosAntigos,
                    categorias_validas : SeqsAte(RotulosValidos, MaxValidas)]
    /\ saida = None
    /\ fase = "chamada"

ChamarSugerir ==
    /\ fase = "chamada"
    /\ saida' = _sugerir_categoria_similar(entrada.categoria_antiga, entrada.categorias_validas)
    /\ fase' = "retorno"
    /\ UNCHANGED <<entrada, sessao, execucao>>

NextSugerir == ChamarSugerir

SpecSugerir == InitSugerir /\ [][NextSugerir]_vars

(***************************************************************************)
(* Specification of one run of criar_interface_mapeamento: the labels to    *)
(* map, the valid labels and the selectboxes the operator has set.          *)
(***************************************************************************)
InconsistentesInterface ==
    {q \in SeqsAte({"AGUA", "Conta de Luz", "Outros"}, 2) : Len(q) = Cardinality(Range(q))}

ValidasInterface == SeqsAte({"Agua", "Contas", "Luz"}, MaxValidas)

InitInterface ==
    /\ SessaoVazia
    /\ SemExecucao
    /\ entrada \in
        {e \in [categorias_inconsistentes : InconsistentesInterface,
                categorias_validas : ValidasInterface,
                escolhas : Dicts({"AGUA", "Outros"}, {"", "Agua", "Luz"}, MaxMapa)] :
            /\ Range(Keys(e.escolhas)) \subseteq Range(e.categorias_inconsistentes)
            /\ \A i \in 1..Len(e.escolhas) :
                    e.escolhas[i][2] \in {""} \cup Range(e.categorias_validas)}
    /\ saida = None
    /\ fase = "chamada"

ChamarInterface ==
    /\ fase = "chamada"
    /\ saida' = criar_interface_mapeamento(
                    entrada.categorias_inconsistentes, entrada.categorias_validas,
                    entrada.escolhas)
    /\ fase' = "retorno"
    /\ UNCHANGED <<entrada, sessao, execucao>>

NextInterface == ChamarInterface

SpecInterface == InitInterface /\ [][NextInterface]_vars

(***************************************************************************)
(* Specification of one call of _aplicar_mapeamento_categorias.             *)
(***************************************************************************)
ValoresCategoria == {Str("A"), Str("B"), Str("C"), NaN}

LancamentosAplicar ==
    Tabelas(<<"Categoria">>, [c \in {"Categoria"} |-> ValoresCategoria], MaxLinhas)
    \cup Tabelas(<<"Descricao", "Categoria">>,
                 ("Descricao" :> {Str("x"), NaN}) @@ ("Categoria" :> ValoresCategoria), MaxLinhas)
    \cup Tabelas(<<"Descricao">>, [c \in {"Descricao"} |-> {Str("A"), NaN}], MaxLinhas)

InitAplicar ==
    /\ SessaoVazia
    /\ SemExecucao
    /\ entrada \in [df : LancamentosAplicar,
                    mapeamento : Dicts({"A", "B"}, {"A", "B", "C"}, MaxMapa)]
    /\ saida = None
    /\ fase = "chamada"

ChamarAplicar ==
    /\ fase = "chamada"
    /\ saida' = _aplicar_mapeamento_categorias(entrada.df, entrada.mapeamento)
    /\ fase' = "retorno"
    /\ UNCHANGED <<entrada, sessao, execucao>>

NextAplicar == ChamarAplicar

SpecAplicar == InitAplicar /\ [][NextAplicar]_vars

(***************************************************************************)
(* The clock.                                                               *)
(***************************************************************************)
\* the date of the first day of the model
DiaInicial == <<2024, 12, 31>>

RECURSIVE DataApos(_, _)
DataApos(d, n) == IF n = 0 THEN d ELSE DataApos(DiaSeguinte(d), n - 1)

\* the date datetime.now() gives
Agora == DataApos(DiaInicial, hoje)

(***************************************************************************)
(* Specification of the pipeline called directly, as teste_modulos.py calls *)
(* it: processar_todos_os_dados, then _aplicar_formatacao_especifica on     *)
(* each table; the same inputs may be run a second time, on the same day    *)
(* or on a later one.                                                       *)
(***************************************************************************)
LancamentosTeste ==
    [cols |-> <<"Data", "Descricao", "Categoria", "Valor", "Conta Corrente",
                "Contato", "Centro de Custo">>,
     rows |-> <<
        ("Data" :> Str("01/01/2024")) @@ ("Descricao" :> Str("Venda de produtos"))
        @@ ("Categoria" :> Str("A")) @@ ("Valor" :> Num(1500))
        @@ ("Conta Corrente" :> Str("Banco A")) @@ ("Contato" :> Str("Cliente X"))
        @@ ("Centro de Custo" :> Str("Vendas")),
        ("Data" :> Str("02/01/2024")) @@ ("Descricao" :> Str("Pagamento fornecedor"))
        @@ ("Categoria" :> Str("B")) @@ ("Valor" :> Num(-800))
        @@ ("Conta Corrente" :> Str("Banco A")) @@ ("Contato" :> Str("Fornecedor Y"))
        @@ ("Centro de Custo" :> Str("Compras")) >>]

TransferenciasTeste ==
    [cols |-> <<"Data", "Conta Origem", "Conta Destino", "Valor", "Descricao">>,
     rows |-> <<
        ("Data" :> Str("01/01/2024")) @@ ("Conta Origem" :> Str("Banco A"))
        @@ ("Conta Destino" :> Str("Banco B")) @@ ("Valor" :> Num(500))
        @@ ("Descricao" :> Str("Reserva")) >>]

PlanoTeste ==
    [cols |-> <<"Codigo", "Nome", "Tipo">>,
     rows |-> <<
        ("Codigo" :> Str("1.01")) @@ ("Nome" :> Str("B")) @@ ("Tipo" :> Str("Receita")),
        ("Codigo" :> Str("2.01")) @@ ("Nome" :> Str("C")) @@ ("Tipo" :> Str("Despesa")) >>]

TransferenciasMovimentacao ==
    [cols |-> <<"Movimentação", "Valor">>,
     rows |-> <<("Movimentação" :> Str("Banco A para Banco B")) @@ ("Valor" :> Num(500))>>]

LancamentosPipeline ==
    Tabelas(<<"Categoria">>, [c \in {"Categoria"} |-> {Str("A"), Str("B")}], MaxLinhas)
    \cup Tabelas(<<"Plano", "Categoria">>,
                 ("Plano" :> {Str("A")}) @@ ("Categoria" :> {Str("A"), Str("B")}), MaxLinhas)
    \cup Tabelas(<<"Data", "Conta">>,
                 ("Data" :> {Str("01/03/2024")}) @@ ("Conta" :> {Str("Banco A"), NaN}), MaxLinhas)
    \cup {TabelaDe("Descricao", <<Str("x")>>), LancamentosTeste,
          [cols |-> <<"Categoria", NomeNaoTexto>>,
           rows |-> <<("Categoria" :> Str("A")) @@ (NomeNaoTexto :> Num(1))>>]}

TransferenciasPipeline ==
    {TabelaVazia(<<>>), TransferenciasMovimentacao, TransferenciasTeste}

PlanosPipeline ==
    {TabelaDe("Nome", <<Str("1 - B"), Str("C")>>), PlanoTeste,
     TabelaDe("Descricao", <<Str("B")>>), TabelaDe("Nome", <<Str("2.1 Luz")>>)}

InitPipeline ==
    /\ SessaoVazia
    /\ SemExecucao
    /\ entrada \in [lanc : LancamentosPipeline, transf : TransferenciasPipeline,
                    cat : PlanosPipeline,
                    mapeamento : Dicts({"A"}, {"B", "Luz"}, MaxMapa)]
    /\ saida = None
    /\ fase = "chamada"

\* the arguments after a call in which the mapping is applied to the frame
\* passed in, not to a copy of it
ArgumentosSemCopia(lanc, transf, cat, mapeamento) ==
    [lanc |-> IF mapeamento # <<>> /\ ~TemNomeNaoTexto(lanc)
              THEN _aplicar_mapeamento_categorias(lanc, mapeamento)
              ELSE lanc,
     transf |-> transf, cat |-> cat, mapeamento |-> mapeamento]

\* the arguments of processar_todos_os_dados after the call: every function
\* assigns only to a copy() of the frame it is given (or to a new frame),
\* and the mapping is only read
ArgumentosAposChamada(lanc, transf, cat, mapeamento) ==
    [lanc |-> lanc, transf |-> transf, cat |-> cat, mapeamento |-> mapeamento]

ProcessarTodos ==
    /\ fase = "chamada"
    /\ saida' = processar_todos_os_dados(entrada.lanc, entrada.transf, entrada.cat,
                                         entrada.mapeamento, Agora)
    /\ entrada' = ArgumentosAposChamada(entrada.lanc, entrada.transf, entrada.cat,
                                        entrada.mapeamento)
    /\ fase' = "processado"
    /\ UNCHANGED <<sessao, execucao>>

FormatarTabelas ==
    /\ fase = "processado"
    /\ ~saida.raise
    /\ planilhas' = [t \in Range(Tipos) |-> _aplicar_formatacao_especifica(t, saida.ret[t]).ret]
    /\ fase' = "formatado"
    /\ UNCHANGED <<entrada, saida, sessao, tela, arquivos_memoria, hoje, anterior>>

\* the caller keeps what the first run gave and runs the same inputs again
Reexecutar ==
    /\ fase = "formatado"
    /\ anterior = None
    /\ anterior' = [saida |-> saida, planilhas |-> planilhas]
    /\ saida' = None
    /\ planilhas' = None
    /\ fase' = "chamada"
    /\ UNCHANGED <<entrada, sessao, tela, arquivos_memoria, hoje>>

\* midnight passes between two calls
PassarDia ==
    /\ fase \in {"chamada", "assistente"}
    /\ hoje < MaxDias
    /\ hoje' = hoje + 1
    /\ UNCHANGED <<entrada, saida, fase, sessao, tela, arquivos_memoria, anterior, planilhas>>

NextPipeline == ProcessarTodos \/ FormatarTabelas \/ Reexecutar \/ PassarDia

SpecPipeline == InitPipeline /\ [][NextPipeline]_vars

(***************************************************************************)
(* Specification of one call of _processar_transferencias, on any day of    *)
(* the clock.                                                               *)
(***************************************************************************)
Movimentacoes ==
    {Str("Banco A para Banco B"), Str("A para B para C"), Str(" A  para "),
     Str("Banco A"), Str("A para"), NaN, Num(5)}

TransferenciasEntrada ==
    Tabelas(<<"Movimentação">>, [c \in {"Movimentação"} |-> Movimentacoes], MaxLinhas)
    \cup Tabelas(<<"Data", "Movimentação">>,
                 ("Data" :> {Str("01/02/2024"), NaN})
                 @@ ("Movimentação" :> {Str("Banco A para Banco B"), NaN}), MaxLinhas)
    \cup Tabelas(<<"Data", "Valor">>,
                 ("Data" :> {Str("01/02/2024"), Str(""), NaN})
                 @@ ("Valor" :> {Num(5)}), MaxLinhas)
    \cup Tabelas(<<"Conta Débito", "Valor">>,
                 ("Conta Débito" :> {Str("Caixa"), NaN}) @@ ("Valor" :> {Num(5), Num(7)}),
                 MaxLinhas)
    \cup {TabelaVazia(<<>>), TransferenciasMovimentacao, TransferenciasTeste}

InitTransferencias ==
    /\ SessaoVazia
    /\ SemExecucao
    /\ entrada \in TransferenciasEntrada
    /\ saida = None
    /\ fase = "chamada"

ChamarTransferencias ==
    /\ fase = "chamada"
    /\ saida' = _processar_transferencias(entrada, Agora)
    /\ fase' = "retorno"
    /\ UNCHANGED <<entrada, sessao, execucao>>

NextTransferencias == ChamarTransferencias \/ PassarDia

SpecTransferencias == InitTransferencias /\ [][NextTransferencias]_vars

(***************************************************************************)
(* Specification of one table that carries dates and amounts: the           *)
(* transactions, the transfers or the accounts are processed and then       *)
(* formatted.                                                               *)
(***************************************************************************)
DatasEntrada == {Str("01/02/2024"), Str("abc"), Str(""), NaN, Timestamp(2024, 1, 5)}
ValoresEntrada == {Num(5), Str("12"), Str("1,5"), NaN}

LancamentosEntrada ==
    Tabelas(<<"Data", "Valor">>,
            ("Data" :> {Str("01/02/2024"), NaN, Timestamp(2024, 1, 5)})
            @@ ("Valor" :> {Num(5), Str("1,5")}), MaxLinhas)
    \cup Tabelas(<<"Valor">>, [c \in {"Valor"} |-> ValoresEntrada], MaxLinhas)
    \cup Tabelas(<<"Data">>, [c \in {"Data"} |-> DatasEntrada], MaxLinhas)
    \cup {TabelaDe("Descricao", <<Str("x")>>)}

ContasEntrada ==
    Tabelas(<<"Data", "Conta">>,
            ("Data" :> (DatasEntrada \ {Str("")}) \cup {Str("12/31/2024"), Str("2024-03-05")})
            @@ ("Conta" :> {Str("Banco A"), Str("Banco B")}), MaxLinhas)
    \cup {TabelaDe("Conta", <<Str("Banco A")>>)}

TransferenciasComData ==
    Tabelas(<<"Data", "Valor">>,
            ("Data" :> DatasEntrada \ {Str("abc")}) @@ ("Valor" :> {Num(5)}), MaxLinhas)
    \cup Tabelas(<<"Valor">>, [c \in {"Valor"} |-> {Num(5), Str("1,5")}], MaxLinhas)

EntradasTabela ==
    [tipo : {"lancamentos"}, dados : LancamentosEntrada]
    \cup [tipo : {"contas_correntes"}, dados : ContasEntrada]
    \cup [tipo : {"transferencias"}, dados : TransferenciasComData]

\* the call processar_todos_os_dados makes for one of the three tables
ProcessarPorTipo(tipo, dados, agora) ==
    CASE tipo = "lancamentos" -> _processar_lancamentos(dados)
      [] tipo = "contas_correntes" -> _processar_contas_correntes(dados)
      [] tipo = "transferencias" -> _processar_transferencias(dados, agora)

InitTabela ==
    /\ SessaoVazia
    /\ SemExecucao
    /\ entrada \in EntradasTabela
    /\ saida = None
    /\ fase = "chamada"

ProcessarTabela ==
    /\ fase = "chamada"
    /\ saida' = ProcessarPorTipo(entrada.tipo, entrada.dados, Agora)
    /\ fase' = "processado"
    /\ UNCHANGED <<entrada, sessao, execucao>>

FormatarTabela ==
    /\ fase = "processado"
    /\ planilhas' = _aplicar_formatacao_especifica(entrada.tipo, saida).ret
    /\ fase' = "formatado"
    /\ UNCHANGED <<entrada, saida, sessao, tela, arquivos_memoria, hoje, anterior>>

NextTabela == ProcessarTabela \/ FormatarTabela

SpecTabela == InitTabela /\ [][NextTabela]_vars

(***************************************************************************)
(* Specification of _garantir_colunas: one call on a table and a list of   *)
(* expected columns, then a second call on the result with the same list.  *)
(***************************************************************************)
ColunasDasTabelas == {<<>>, <<"A">>, <<"B", "A">>, <<"C", "A">>}

ListasEsperadas ==
    {<<>>, <<"A">>, <<"A", "B">>, <<"B", "A">>, <<"D", "A">>, <<"A", "B", "D">>}

TabelasGarantir ==
    UNION {Tabelas(cols, [c \in Range(cols) |-> {Str("x"), NaN}], MaxLinhas) :
              cols \in ColunasDasTabelas}

InitGarantir ==
    /\ SessaoVazia
    /\ tela = ""
    /\ arquivos_memoria = None
    /\ hoje = 0
    /\ planilhas = None
    /\ entrada \in [dados : TabelasGarantir, colunas_esperadas : ListasEsperadas]
    /\ anterior = entrada
    /\ saida = None
    /\ fase = "chamada"

\* dados_final = dados.copy(): the frame passed in stays as it was
ChamarGarantir ==
    /\ fase = "chamada"
    /\ saida' = _garantir_colunas(entrada.dados, entrada.colunas_esperadas)
    /\ fase' = "retorno"
    /\ UNCHANGED <<entrada, sessao, execucao>>

ChamarGarantirDeNovo ==
    /\ fase = "retorno"
    /\ planilhas' = _garantir_colunas(saida, entrada.colunas_esperadas)
    /\ fase' = "segunda"
    /\ UNCHANGED <<entrada, saida, sessao, tela, arquivos_memoria, hoje, anterior>>

NextGarantir == ChamarGarantir \/ ChamarGarantirDeNovo

SpecGarantir == InitGarantir /\ [][NextGarantir]_vars

(***************************************************************************)
(* Specification of one register table: the cost centers or the contacts    *)
(* are extracted from the transactions, or the categories from the chart,   *)
(* and then formatted.                                                      *)
(***************************************************************************)
CentrosEntrada ==
    Tabelas(<<"Centro de Custo">>,
            [c \in {"Centro de Custo"} |-> {Str("Adm"), Str("Obras"), Str(""), Str(" "), NaN}],
            MaxLinhas)
    \cup Tabelas(<<"Custo", "CentroCusto", "CENTRO DE CUSTO 2">>,
                 ("Custo" :> {Str("x")}) @@ ("CentroCusto" :> {Str("Adm"), Str("Obras")})
                 @@ ("CENTRO DE CUSTO 2" :> {Str("y")}), MaxLinhas)
    \cup {TabelaDe("Descricao", <<Str("x")>>)}

PlanosEntrada ==
    Tabelas(<<"Nome">>,
            [c \in {"Nome"} |-> {Str("1 - B"), Str("C"), Str("2.1 Luz"), Str("A: B"), NaN}],
            MaxLinhas)
    \cup Tabelas(<<"Codigo", "Nome">>,
                 ("Codigo" :> {Str("2.1.1.1"), Str("2.1.1"), Str("2"), Str(" 2.1 "), NaN})
                 @@ ("Nome" :> {Str("B"), Str("1 - B")}), MaxLinhas)
    \cup Tabelas(<<"Codigo", "Nome">>,
                 ("Codigo" :> {Num(21), Str("2.1")}) @@ ("Nome" :> {Str("B")}), MaxLinhas)
    \cup Tabelas(<<"ID", "Código", "Nome">>,
                 ("ID" :> {Num(7)}) @@ ("Código" :> {Str("1.2"), Str("3")})
                 @@ ("Nome" :> {Str("B")}), MaxLinhas)
    \cup Tabelas(<<"Descricao">>, [c \in {"Descricao"} |-> {Str("x"), Str("y")}], MaxLinhas)

ContatosEntrada ==
    Tabelas(<<"Cliente">>,
            [c \in {"Cliente"} |-> {Str("A"), Str(" A "), Str("B"), Str(""), Str(" "), NaN}],
            MaxLinhas)
    \cup Tabelas(<<"Valor", "Nome do Fornecedor", "Contato">>,
                 ("Valor" :> {Num(5)}) @@ ("Nome do Fornecedor" :> {Str("A"), Num(7)})
                 @@ ("Contato" :> {Str("C")}), MaxLinhas)
    \cup {TabelaDe("Valor", <<Num(5)>>)}

EntradasCadastro ==
    [tipo : {"centros_custo"}, dados : CentrosEntrada]
    \cup [tipo : {"categorias"}, dados : PlanosEntrada]
    \cup [tipo : {"contatos"}, dados : ContatosEntrada]

\* the call processar_todos_os_dados makes for one of the register tables
ProcessarCadastroPorTipo(tipo, dados) ==
    CASE tipo = "centros_custo" -> _processar_centros_custo(dados)
      [] tipo = "contatos" -> _processar_contatos(dados)
      [] tipo = "categorias" -> _processar_categorias(dados)

InitCadastro ==
    /\ SessaoVazia
    /\ SemExecucao
    /\ entrada \in EntradasCadastro
    /\ saida = None
    /\ fase = "chamada"

ProcessarCadastro ==
    /\ fase = "chamada"
    /\ saida' = ProcessarCadastroPorTipo(entrada.tipo, entrada.dados)
    /\ fase' = "processado"
    /\ UNCHANGED <<entrada, sessao, execucao>>

FormatarCadastro ==
    /\ fase = "processado"
    /\ planilhas' = _aplicar_formatacao_especifica(entrada.tipo, saida).ret
    /\ fase' = "formatado"
    /\ UNCHANGED <<entrada, saida, sessao, tela, arquivos_memoria, hoje, anterior>>

NextCadastro == ProcessarCadastro \/ FormatarCadastro

SpecCadastro == InitCadastro /\ [][NextCadastro]_vars

(***************************************************************************)
(* Specification of the wizard (app.py).  Each action is one click and the  *)
(* run of the script that follows it.                                       *)
(***************************************************************************)
\* the sheets the operator may upload, as pd.read_excel gives them
ArquivosLancamentos ==
    {[cols |-> <<"Categoria">>,
      rows |-> <<("Categoria" :> Str("A")), ("Categoria" :> NaN), ("Categoria" :> Str("B"))>>],
     [cols |-> <<" Categoria", "Descricao">>,
      rows |-> <<(" Categoria" :> Str("A")) @@ ("Descricao" :> Str("x" \o CaractereIlegal))>>],
     [cols |-> <<"Categoria", "Obs">>,
      rows |-> <<("Categoria" :> Str("A")) @@ ("Obs" :> NaN),
                 ("Categoria" :> Str("D")) @@ ("Obs" :> NaN)>>],
     TabelaDe("Descricao", <<Str("x")>>),
     [cols |-> <<"Categoria", NomeNaoTexto>>,
      rows |-> <<("Categoria" :> Str("A")) @@ (NomeNaoTexto :> Num(1))>>]}

ArquivosTransferencias == {TransferenciasMovimentacao, TransferenciasTeste}

ArquivosCategorias ==
    {TabelaDe("Nome", <<Str("1 - B"), Str("C")>>), TabelaDe("Codigo", <<Str("1.1")>>)}

Init ==
    /\ SessaoVazia
    /\ SemExecucao
    /\ entrada = None
    /\ saida = None
    /\ fase = "assistente"

\* a restart that drops the tables and the mapping but stays on the step
LimparSessaoNaMesmaEtapa ==
    /\ etapa_atual' = etapa_atual
    /\ dados_lancamentos' = None
    /\ dados_transferencias' = None
    /\ dados_categorias' = None
    /\ mapeamento_categorias' = <<>>
    /\ selecao' = <<>>
    /\ tela' = ""
    /\ arquivos_memoria' = None
    /\ saida' = None
    /\ anterior' = None
    /\ UNCHANGED <<hoje, planilhas, entrada, fase>>

\* del st.session_state[key] for every key, then the run that sets the
\* session up again
LimparSessao ==
    /\ etapa_atual' = 0
    /\ dados_lancamentos' = None
    /\ dados_transferencias' = None
    /\ dados_categorias' = None
    /\ mapeamento_categorias' = <<>>
    /\ selecao' = <<>>
    /\ tela' = ""
    /\ arquivos_memoria' = None
    /\ saida' = None
    /\ anterior' = None
    /\ UNCHANGED <<hoje, planilhas, entrada, fase>>

\* step 4 runs: processar_todos_os_dados, gerar_planilhas_memoria and the
\* messages
MostrarGeracao(r) ==
    /\ saida' = r.dados_processados
    /\ arquivos_memoria' = r.arquivos_memoria
    /\ tela' = r.tela

ExecutarGeracao(lanc, transf, cat, mapeamento) ==
    MostrarGeracao(etapa_geracao_planilhas(lanc, transf, cat, mapeamento, Agora))

ReiniciarProcesso ==
    /\ fase = "assistente"
    /\ LimparSessao

ProsseguirLancamentos ==
    /\ fase = "assistente"
    /\ etapa_atual = 0
    /\ \E arquivo \in ArquivosLancamentos :
        /\ ~ler_excel(arquivo).raise
        /\ dados_lancamentos' = ler_excel(arquivo).ret
    /\ etapa_atual' = 1
    /\ UNCHANGED <<dados_transferencias, dados_categorias, mapeamento_categorias, selecao,
                   execucao, entrada, saida, fase>>

VoltarTransferencias ==
    /\ fase = "assistente"
    /\ etapa_atual = 1
    /\ etapa_atual' = 0
    /\ UNCHANGED <<dados_lancamentos, dados_transferencias, dados_categorias,
                   mapeamento_categorias, selecao, execucao, entrada, saida, fase>>

ProsseguirTransferencias ==
    /\ fase = "assistente"
    /\ etapa_atual = 1
    /\ \E arquivo \in ArquivosTransferencias :
        /\ ~ler_excel(arquivo).raise
        /\ dados_transferencias' = ler_excel(arquivo).ret
    /\ etapa_atual' = 2
    /\ UNCHANGED <<dados_lancamentos, dados_categorias, mapeamento_categorias, selecao,
                   execucao, entrada, saida, fase>>

VoltarCategorias ==
    /\ fase = "assistente"
    /\ etapa_atual = 2
    /\ etapa_atual' = 1
    /\ UNCHANGED <<dados_lancamentos, dados_transferencias, dados_categorias,
                   mapeamento_categorias, selecao, execucao, entrada, saida, fase>>

ProsseguirCategorias ==
    /\ fase = "assistente"
    /\ etapa_atual = 2
    /\ \E arquivo \in ArquivosCategorias :
        /\ ~ler_excel(arquivo).raise
        /\ dados_categorias' = ler_excel(arquivo).ret
    /\ etapa_atual' = 3
    /\ UNCHANGED <<dados_lancamentos, dados_transferencias, mapeamento_categorias, selecao,
                   execucao, entrada, saida, fase>>

\* the operator changes one selectbox of step 3; the run that follows
\* writes into the mapping the category every selectbox shows
SelecionarCategoria ==
    /\ fase = "assistente"
    /\ etapa_atual = 3
    /\ LET inconsistentes == InconsistentesDaTela(dados_lancamentos, dados_categorias)
           opcoes == OpcoesDaTela(dados_categorias)
       IN  /\ opcoes # <<>>
           /\ \E categoria_antiga \in Range(inconsistentes) :
              \E nova_categoria \in {Selecione} \cup Range(opcoes) :
                /\ nova_categoria #
                        (IF HasKey(selecao, categoria_antiga)
                         THEN Lookup(selecao, categoria_antiga) ELSE Selecione)
                /\ selecao' =
                        IF nova_categoria = Selecione
                        THEN SelectSeqP(selecao,
                                {e \in Range(selecao) : e[1] # categoria_antiga})
                        ELSE DictSet(selecao, categoria_antiga, nova_categoria)
                /\ mapeamento_categorias' =
                        GravarSelecoes(mapeamento_categorias, inconsistentes, selecao', 1)
    /\ UNCHANGED <<etapa_atual, dados_lancamentos, dados_transferencias, dados_categorias,
                   execucao, entrada, saida, fase>>

\* the selectboxes are not drawn at step 2 and lose their state
VoltarValidacao ==
    /\ fase = "assistente"
    /\ etapa_atual = 3
    /\ etapa_atual' = 2
    /\ selecao' = <<>>
    /\ UNCHANGED <<dados_lancamentos, dados_transferencias, dados_categorias,
                   mapeamento_categorias, execucao, entrada, saida, fase>>

\* the button "Gerar Planilhas", enabled when nothing is pending
GerarPlanilhas ==
    /\ fase = "assistente"
    /\ etapa_atual = 3
    /\ categorias_pendentes(dados_lancamentos, dados_categorias, mapeamento_categorias) = <<>>
    /\ etapa_atual' = 4
    /\ selecao' = <<>>
    /\ ExecutarGeracao(dados_lancamentos, dados_transferencias, dados_categorias,
                       mapeamento_categorias)
    /\ UNCHANGED <<dados_lancamentos, dados_transferencias, dados_categorias,
                   mapeamento_categorias, hoje, anterior, planilhas, entrada, fase>>

\* a download button of the success screen: the script runs again
BaixarPlanilha ==
    /\ fase = "assistente"
    /\ etapa_atual = 4
    /\ tela = "sucesso"
    /\ anterior' = saida
    /\ ExecutarGeracao(dados_lancamentos, dados_transferencias, dados_categorias,
                       mapeamento_categorias)
    /\ UNCHANGED <<sessao, hoje, planilhas, entrada, fase>>

FazerNovaConversao ==
    /\ fase = "assistente"
    /\ etapa_atual = 4
    /\ tela \in {"sucesso", "nenhuma"}
    /\ LimparSessao

TentarNovamente ==
    /\ fase = "assistente"
    /\ etapa_atual = 4
    /\ tela = "excecao"
    /\ anterior' = saida
    /\ ExecutarGeracao(dados_lancamentos, dados_transferencias, dados_categorias,
                       mapeamento_categorias)
    /\ UNCHANGED <<sessao, hoje, planilhas, entrada, fase>>

VoltarGeracao ==
    /\ fase = "assistente"
    /\ etapa_atual = 4
    /\ tela = "excecao"
    /\ etapa_atual' = 3
    /\ tela' = ""
    /\ arquivos_memoria' = None
    /\ saida' = None
    /\ anterior' = None
    /\ UNCHANGED <<dados_lancamentos, dados_transferencias, dados_categorias,
                   mapeamento_categorias, selecao, hoje, planilhas, entrada, fase>>

Next ==
    \/ ReiniciarProcesso
    \/ ProsseguirLancamentos
    \/ VoltarTransferencias
    \/ ProsseguirTransferencias
    \/ VoltarCategorias
    \/ ProsseguirCategorias
    \/ SelecionarCategoria
    \/ VoltarValidacao
    \/ GerarPlanilhas
    \/ BaixarPlanilha
    \/ FazerNovaConversao
    \/ TentarNovamente
    \/ VoltarGeracao
    \/ PassarDia

Spec == Init /\ [][Next]_vars

(***************************************************************************)
(* Properties of the decomposition.                                         *)
(***************************************************************************)
Min(S) == CHOOSE x \in S : \A y \in S : x <= y

\* where each separator first occurs in t
PosSeparadores(t) ==
    {Find(separadores[i], t) : i \in 1..Len(separadores)} \ {0}

\* the separator that starts at position p of t
SeparadorEm(t, p) ==
    separadores[CHOOSE i \in 1..Len(separadores) : StartsAt(separadores[i], t, p)]

\* C9: a trimmed label that contains a separator is split at the first
\* occurrence in the label of any separator; code is the trimmed text before
\* it and name the trimmed text after it ("A :: B" gives ("A", "B") and
\* "A: B - C" gives ("A", "B - C")).
C9_SplitAtFirstSeparator ==
    (fase = "retorno" /\ IsStr(entrada)) =>
        LET t == Strip(entrada.v)
        IN  PosSeparadores(t) # {} =>
                LET p == Min(PosSeparadores(t))
                    sep == SeparadorEm(t, p)
                IN  saida = <<Strip(SubSeq(t, 1, p - 1)),
                              Strip(SubSeq(t, p + Len(sep), Len(t)))>>

\* the first whitespace-delimited token of a trimmed text, and what follows
\* the whitespace after it
HasSpace(t) == \E i \in 1..Len(t) : IsSpace(Char(t, i))
FirstSpace(t) == Min({i \in 1..Len(t) : IsSpace(Char(t, i))})
PrimeiroToken(t) == SubSeq(t, 1, FirstSpace(t) - 1)
AposToken(t) == LStrip(SubSeq(t, FirstSpace(t), Len(t)))

\* digits separated by single dots: 2, 2.2, 2.2.1
IsDottedNumeric(tok) ==
    /\ Len(tok) > 0
    /\ \A i \in 1..Len(tok) : IsDigit(Char(tok, i)) \/ Char(tok, i) = "."
    /\ IsDigit(Char(tok, 1))
    /\ IsDigit(Char(tok, Len(tok)))
    /\ \A i \in 1..(Len(tok) - 1) : ~(Char(tok, i) = "." /\ Char(tok, i + 1) = ".")

\* one letter, then digits with optional dotted numeric segments: A1, A1.2
IsLetterCode(tok) ==
    /\ Len(tok) > 1
    /\ IsAsciiLetter(Char(tok, 1))
    /\ IsDottedNumeric(Tail(tok))

\* text: at least one character and no line break
IsTexto(s) == Len(s) > 0 /\ ~Contains("\n", s)

\* C10: for a label with no separator, decompose gives (code, text) when the
\* trimmed label is a dotted-numeric code, whitespace, text; else (code, text)
\* when it is a letter-plus-digits code, whitespace, text; otherwise code is
\* "" and name is the trimmed label.
C10_CodePatternsThenFallback ==
    (fase = "retorno" /\ IsStr(entrada)) =>
        LET t == Strip(entrada.v)
        IN  PosSeparadores(t) = {} =>
                IF HasSpace(t) /\ IsDottedNumeric(PrimeiroToken(t)) /\ IsTexto(AposToken(t))
                THEN saida = <<PrimeiroToken(t), AposToken(t)>>
                ELSE IF HasSpace(t) /\ IsLetterCode(PrimeiroToken(t)) /\ IsTexto(AposToken(t))
                THEN saida = <<PrimeiroToken(t), AposToken(t)>>
                ELSE saida = <<"", t>>

\* the second rule has acted: a letter-plus-digits code was split off
C10_Witness ==
    /\ fase = "retorno"
    /\ entrada = Str("A1.1 A")
    /\ saida = <<"A1.1", "A">>

\* a pair of strings
ParDeTextos(par) ==
    /\ Len(par) = 2
    /\ \A i \in 1..2 : Len(par[i]) >= 0 /\ par[i] \o "" = par[i]

\* C11: decompose returns a pair of strings for every input, never raises,
\* and a null or non-string input is coerced to the empty string before
\* matching, so its result is ("", "").
C11_NonStringGivesEmptyPair ==
    fase = "retorno" =>
        /\ ParDeTextos(saida)
        /\ ~IsStr(entrada) => saida = <<"", "">>

(***************************************************************************)
(* Properties of the reconciler and of the substitution.                    *)
(***************************************************************************)
\* the cells of a column, as a set; empty when the table lacks the column
Celulas(df, col) ==
    IF HasCol(df, col) THEN {df.rows[i][col] : i \in 1..Len(df.rows)} ELSE {}

ColunaLancamentosDaChamada ==
    IF entrada.colunas[1] # "" THEN entrada.colunas[1] ELSE "Categoria"
ColunaPlanoDaChamada ==
    IF entrada.colunas[2] # "" THEN entrada.colunas[2]
    ELSE _encontrar_coluna_categoria(entrada.cat)[1]

\* C1: when both category columns exist, the result lists, each once, exactly
\* the non-missing values of the transactions category column that equal
\* (case-sensitively) the decomposed name of no chart entry.
C1_ExactlyTheUnmatchedLabels ==
    (/\ fase = "retorno"
     /\ HasCol(entrada.lanc, ColunaLancamentosDaChamada)
     /\ (entrada.colunas[2] = "" => _encontrar_coluna_categoria(entrada.cat) # <<>>)
     /\ HasCol(entrada.cat, ColunaPlanoDaChamada)) =>
        LET usados == {c.v : c \in {x \in Celulas(entrada.lanc, ColunaLancamentosDaChamada) : ~IsNa(x)}}
            nomes == {_limpar_categoria(c)[2] : c \in Celulas(entrada.cat, ColunaPlanoDaChamada)}
        IN  /\ Range(saida.ret) = {v \in usados : \A n \in nomes : n # v}
            /\ Len(saida.ret) = Cardinality(Range(saida.ret))
            /\ ~saida.st_error

\* the example of the claim: a label used twice is reported once, the label
\* whose name the chart holds behind a code is not reported
C1_Witness ==
    /\ fase = "retorno"
    /\ entrada.lanc = LancamentosExemplo
    /\ entrada.cat = PlanoExemplo
    /\ saida.ret = <<"Receita Vendas">>

\* the whitespace tokens of s: the maximal runs of non-whitespace characters
Tokens(s) ==
    {SubSeq(s, ij[1], ij[2]) : ij \in
        {x \in (1..Len(s)) \X (1..Len(s)) :
            /\ x[1] <= x[2]
            /\ \A k \in x[1]..x[2] : ~IsSpace(Char(s, k))
            /\ x[1] = 1 \/ IsSpace(Char(s, x[1] - 1))
            /\ x[2] = Len(s) \/ IsSpace(Char(s, x[2] + 1))}}

\* valid label v has a token t such that some token w of the old label with
\* more than 3 characters is inside t or holds t, in lower case
Parecida(antiga, v) ==
    \E w \in Tokens(Lower(antiga)) : \E tk \in Tokens(Lower(v)) :
        /\ Len(w) > 3
        /\ Contains(w, tk) \/ Contains(tk, w)

\* C13: suggest returns the first valid label equal to the old label ignoring
\* case if there is one; otherwise the first valid label of the list with a
\* token t such that a token w of the old label longer than 3 characters is a
\* substring of t or has t as a substring, in lower case; otherwise no
\* suggestion.  A suggestion is a member of the valid list.
C13_ExactThenPartialThenNone ==
    fase = "retorno" =>
        LET validas == entrada.categorias_validas
            antiga == entrada.categoria_antiga
            exatas == {i \in 1..Len(validas) : Lower(validas[i]) = Lower(antiga)}
            parciais == {i \in 1..Len(validas) : Parecida(antiga, validas[i])}
        IN  /\ saida = IF exatas # {} THEN validas[Min(exatas)]
                       ELSE IF parciais # {} THEN validas[Min(parciais)]
                       ELSE ""
            /\ saida # "" => saida \in Range(validas)

\* an exact match later in the list wins over a partial match before it, and
\* a short token of a valid label inside a long token of the old label counts
C13_Witness ==
    /\ fase = "retorno"
    /\ \/ /\ entrada.categoria_antiga = "AGUA"
          /\ entrada.categorias_validas = <<"Aguardente", "agua">>
          /\ saida = "agua"
       \/ /\ entrada.categoria_antiga = "Aguardente"
          /\ entrada.categorias_validas = <<"Luz", "gua">>
          /\ saida = "gua"

\* C14: a suggestion is advisory only: an entry old label -> new label is in
\* the mapping returned by criar_interface_mapeamento only if the operator
\* chose that new label for that old label; a label the operator did not act
\* on has no entry, even when a candidate was suggested.
C14_OnlyOperatorChoicesAreMapped ==
    fase = "retorno" =>
        \A i \in 1..Len(saida) :
            /\ HasKey(entrada.escolhas, saida[i][1])
            /\ Lookup(entrada.escolhas, saida[i][1]) = saida[i][2]

\* a category column the call names, or falls back to, is not in its table
ColunaAusenteNaChamada ==
    \/ ~HasCol(entrada.lanc, ColunaLancamentosDaChamada)
    \/ (entrada.colunas[2] = "" /\ _encontrar_coluna_categoria(entrada.cat) = <<>>)
    \/ (entrada.colunas[2] # "" /\ ~HasCol(entrada.cat, entrada.colunas[2]))

\* C12: when the transactions category column or the chart category column
\* of the call is absent from its table, the call fails with an error that
\* reaches the caller: the caller does not receive the empty list, which is
\* the result for 'no inconsistent labels'.
C12_AbsentColumnReachesCaller ==
    (fase = "retorno" /\ ColunaAusenteNaChamada) => saida.ret # <<>>

\* C5 as stated: the check returns true exactly when every inconsistent label
\* is a key with a non-blank value, whatever the other entries of the mapping.
C5_OnlyInconsistentLabelsCount ==
    fase = "retorno" =>
        (saida.ret <=>
            \A l \in Range(entrada.categorias_inconsistentes) :
                HasKey(entrada.mapeamento, l) /\ Lookup(entrada.mapeamento, l) # "")

\* C5 amended: the check returns true exactly when every inconsistent label is
\* a key and every entry of the mapping, inside or outside the inconsistent
\* set, has a non-blank value; it reports the missing labels when some label
\* is missing, and else the keys whose value is blank.
C5_AllEntriesCount ==
    fase = "retorno" =>
        LET faltantes == {l \in Range(entrada.categorias_inconsistentes) : ~HasKey(entrada.mapeamento, l)}
            sem_valor == {k \in Range(Keys(entrada.mapeamento)) : Lookup(entrada.mapeamento, k) = ""}
        IN  /\ saida.ret <=> (faltantes = {} /\ sem_valor = {})
            /\ saida.st_error = IF faltantes # {} THEN faltantes ELSE sem_valor

\* the example of the claim: mapping {"A": "B"}, inconsistent {"A", "C"}
C5_Witness ==
    /\ fase = "retorno"
    /\ entrada.mapeamento = <<<<"A", "B">>>>
    /\ Range(entrada.categorias_inconsistentes) = {"A", "C"}
    /\ saida = [ret |-> FALSE, st_error |-> {"C"}]

\* C2: the result has the same rows in the same order; in each row the
\* category v is mapping[v] when v is a key and v otherwise, each row being
\* substituted at most once; every other field is unchanged.
C2_EachRowSubstitutedOnce ==
    fase = "retorno" =>
        LET df == entrada.df
            m == entrada.mapeamento
        IN  IF HasCol(df, "Categoria")
            THEN /\ saida.cols = df.cols
                 /\ Len(saida.rows) = Len(df.rows)
                 /\ \A i \in 1..Len(df.rows) :
                        LET v == df.rows[i]["Categoria"]
                        IN  saida.rows[i] =
                                IF IsStr(v) /\ HasKey(m, v.v)
                                THEN [df.rows[i] EXCEPT !["Categoria"] = Str(Lookup(m, v.v))]
                                ELSE df.rows[i]
            ELSE saida = df

(***************************************************************************)
(* Properties of the pipeline and of the wizard.                            *)
(***************************************************************************)
\* the inconsistent labels of the run: the labels of 'Categoria' that are
\* not the clean name of an entry of the chart
InconsistentesDaEntrada ==
    Range(encontrar_categorias_inconsistentes(
            entrada.lanc, entrada.cat, coluna_lancamentos_fixa, coluna_plano_fixa).ret)

\* the mapping of the run is complete: its keys are the inconsistent labels
\* and its values are categories of the chart
MapeamentoCompletoDaEntrada ==
    /\ Range(Keys(entrada.mapeamento)) = InconsistentesDaEntrada
    /\ \A k \in Range(Keys(entrada.mapeamento)) :
            Lookup(entrada.mapeamento, k)
                \in Range(obter_categorias_validas(entrada.cat, coluna_plano_fixa))

\* C3: end to end, for a transactions table that has a 'Categoria' column,
\* whatever its other columns, and a complete mapping, row i of the
\* transactions output has Categoria = mapping[v] where row i of the source
\* had the inconsistent label v in 'Categoria', and the source value
\* otherwise.
C3_OutputCategoryIsMapped ==
    (/\ fase = "processado"
     /\ ~saida.raise
     /\ HasCol(entrada.lanc, "Categoria")
     /\ MapeamentoCompletoDaEntrada) =>
        LET fonte == entrada.lanc
            resultado == saida.ret["lancamentos"]
        IN  /\ HasCol(resultado, "Categoria")
            /\ Len(resultado.rows) = Len(fonte.rows)
            /\ \A i \in 1..Len(fonte.rows) :
                    LET v == fonte.rows[i]["Categoria"]
                    IN  resultado.rows[i]["Categoria"] =
                            IF IsStr(v) /\ v.v \in InconsistentesDaEntrada
                            THEN Str(Lookup(entrada.mapeamento, v.v))
                            ELSE v

\* the labels used in the loaded transactions that no entry of the loaded
\* chart has as its clean name
RotulosForaDoPlano ==
    {c.v : c \in {x \in Celulas(dados_lancamentos, coluna_lancamentos_fixa) : ~IsNa(x)}}
    \ (IF HasCol(dados_categorias, coluna_plano_fixa)
       THEN Range(NomesLimpos(dados_categorias, coluna_plano_fixa))
       ELSE {})

\* C4: etapa_atual becomes 4 only from a state in which every inconsistent
\* label of the loaded transactions and chart has a non-blank value in the
\* mapping, also when a required category column is missing.
C4_GenerationOnlyAfterCompleteMapping ==
    [][(etapa_atual # 4 /\ etapa_atual' = 4) =>
            \A l \in RotulosForaDoPlano :
                HasKey(mapeamento_categorias, l) /\ Lookup(mapeamento_categorias, l) # ""]_vars

\* the fixed column list of each output table
ColunasFixas ==
    [t \in Range(Tipos) |->
        CASE t = "categorias" ->
                <<"Código", "Nome", "Código Pai", "Competência por Parcela", "Desconto %",
                  "Desconto R$", "Dias para vencimento", "Gera Boleto", "Gera Nota Fiscal",
                  "Gera Recibo">>
          [] t = "centros_custo" -> <<"Codigo", "Nome", "Ativo">>
          [] t = "contas_correntes" -> <<"Nome", "Tipo", "Data Inicial", "Valor Inicial">>
          [] t = "contatos" ->
                <<"Nome", "Tipo", "Documento", "E-mail", "Enviar e-mail?",
                  "Telefone Residencial", "Telefone Comercial", "Telefone Celular",
                  "Contribuinte ICMS?", "Inscrição Estadual", "Inscrição Municipal">>
          [] t = "lancamentos" ->
                <<"Confirmado", "Data Emissão", "Data", "Valor Emissão", "Valor",
                  "Repetição", "Total Parcelas", "Descrição", "Categoria",
                  "Centro de Custo", "Conta Corrente", "Contato">>
          [] t = "transferencias" ->
                <<"Data", "Valor", "Descrição", "Conta Débito", "Conta Crédito">>]

\* C6: for every input set the run does not raise, and each of the six
\* tables, after processing and formatting, has exactly its fixed column
\* list in the fixed order.
C6_SixTablesHaveFixedColumns ==
    /\ fase = "processado" => ~saida.raise
    /\ fase = "formatado" => \A t \in Range(Tipos) : planilhas[t].cols = ColunasFixas[t]

\* C7: a run is all-or-nothing: processar_todos_os_dados returns the six
\* tables or raises, and step 4 presents the six files or an error, never
\* fewer than six files as a successful run.
C7_AllSixOrAnError ==
    etapa_atual = 4 =>
        /\ saida.raise \/ DOMAIN saida.ret = Range(Tipos)
        /\ tela \in {"sucesso", "excecao", "nenhuma"}
        /\ tela = "excecao" <=> saida.raise
        /\ tela = "sucesso" =>
                {arquivo[1] : arquivo \in Range(arquivos_memoria)}
                    = {mapeamento_arquivos[t] : t \in Range(Tipos)}

\* C8: a second run of the pipeline on the same input tables and the same
\* mapping gives the same six tables, processed and formatted, as the first,
\* whenever each run is made.
C8_RerunGivesIdenticalTables ==
    (fase = "formatado" /\ anterior # None) =>
        /\ saida = anterior.saida
        /\ planilhas = anterior.planilhas

\* C15: when the mapping is handed to the transformer (step 4), its key set
\* is exactly the inconsistent-label set of the transactions and chart tables
\* loaded at that moment, whatever wizard actions came before.
C15_KeysAreTheInconsistentLabels ==
    (fase = "assistente" /\ etapa_atual = 4) =>
        Range(Keys(mapeamento_categorias)) =
            Range(encontrar_categorias_inconsistentes(
                    dados_lancamentos, dados_categorias,
                    coluna_lancamentos_fixa, coluna_plano_fixa).ret)

\* C16: between a restart and the consumption of the mapping its key set
\* only grows: every wizard action other than "Reiniciar Processo" and
\* "Fazer Nova Conversao" leaves every existing key in place (a choice set
\* back to the placeholder, a step back and a new run of the validation step
\* remove nothing); only a restart empties it.
C16_KeysOnlyGrowUntilRestart ==
    [][\/ Range(Keys(mapeamento_categorias)) \subseteq Range(Keys(mapeamento_categorias'))
       \/ ReiniciarProcesso
       \/ FazerNovaConversao]_vars

\* the operator is back at the validation step with no selectbox set, by a
\* choice set back to the placeholder or by steps back and forth, and the
\* mapping still holds an entry
C16_Witness ==
    /\ fase = "assistente"
    /\ etapa_atual = 3
    /\ selecao = <<>>
    /\ HasKey(mapeamento_categorias, "A")

(***************************************************************************)
(* Properties of the transfers table.                                       *)
(***************************************************************************)
\* the movement cell of input row i holds a text with " para "
TemPara(i) ==
    /\ HasCol(entrada, "Movimentação")
    /\ IsStr(entrada.rows[i]["Movimentação"])
    /\ Contains(" para ", entrada.rows[i]["Movimentação"].v)

\* the trimmed text before and after the first " para " of a movement
AntesDePara(m) == Strip(SubSeq(m, 1, Find(" para ", m) - 1))
DepoisDePara(m) == Strip(SubSeq(m, Find(" para ", m) + 6, Len(m)))

\* row i of the output holds the split of the movement of row i of the input
ContasDaMovimentacao(i) ==
    IF TemPara(i)
    THEN /\ saida.rows[i]["Conta Débito"] = Str(AntesDePara(entrada.rows[i]["Movimentação"].v))
         /\ saida.rows[i]["Conta Crédito"] = Str(DepoisDePara(entrada.rows[i]["Movimentação"].v))
    ELSE /\ saida.rows[i]["Conta Débito"] = Str("")
         /\ saida.rows[i]["Conta Crédito"] = Str("")

\* C17 as stated: every input row with a movement "X para Y" gives Conta
\* Debito = trimmed X and Conta Credito = trimmed Y, split at the first
\* " para "; a missing movement or one without " para " gives both blank; an
\* input with no movement column gives both blank; the output has the rows
\* of the input, in the same order.
C17_SplitOrBlank ==
    fase = "retorno" =>
        /\ Len(saida.rows) = Len(entrada.rows)
        /\ \A i \in 1..Len(entrada.rows) : ContasDaMovimentacao(i)

\* an account column of the output for an input with no movement column: the
\* input's column of that name when it has one, else blank
ContaSemMovimentacao(i, coluna) ==
    saida.rows[i][coluna] =
        IF HasCol(entrada, coluna) THEN entrada.rows[i][coluna] ELSE Str("")

\* C17 amended: as stated when the input has a movement column; with no
\* movement column Conta Debito and Conta Credito are each the input's column
\* of that name, unchanged, and blank only when the input has no such column.
C17_SplitOrBlankOrCarried ==
    fase = "retorno" =>
        /\ Len(saida.rows) = Len(entrada.rows)
        /\ \A i \in 1..Len(entrada.rows) :
                IF HasCol(entrada, "Movimentação") THEN ContasDaMovimentacao(i)
                ELSE /\ ContaSemMovimentacao(i, "Conta Débito")
                     /\ ContaSemMovimentacao(i, "Conta Crédito")

\* two movements split in input order, the second with text to trim
C17_Witness ==
    /\ fase = "retorno"
    /\ entrada = TabelaDe("Movimentação", <<Str("Banco A para Banco B"), Str(" A  para ")>>)
    /\ saida.rows[1]["Conta Débito"] = Str("Banco A")
    /\ saida.rows[1]["Conta Crédito"] = Str("Banco B")
    /\ saida.rows[2]["Conta Débito"] = Str("A")
    /\ saida.rows[2]["Conta Crédito"] = Str("")

(***************************************************************************)
(* Properties of the dates and amounts of the outputs.                      *)
(***************************************************************************)
\* the source cell of row i in column col holds a value
Presente(i, col) ==
    /\ HasCol(entrada.dados, col)
    /\ ~IsNa(entrada.dados.rows[i][col])
    /\ entrada.dados.rows[i][col] # Str("")

\* the texts that write the date of a date value
TextosDaData(c) == {Str(IsoData(c.v)), Str(IsoData(c.v) \o " 00:00:00")}

\* the date of source row i is in output row i: a text as it is, a date
\* value as the text of that date; blank when the source has none
DataLevada(i) ==
    IF Presente(i, "Data")
    THEN IF entrada.dados.rows[i]["Data"].k = "date"
         THEN planilhas.rows[i]["Data"] \in TextosDaData(entrada.dados.rows[i]["Data"])
         ELSE planilhas.rows[i]["Data"] = entrada.dados.rows[i]["Data"]
    ELSE planilhas.rows[i]["Data"] = Str("")

\* a text that writes a whole number
EhNumeral(s) ==
    \/ Len(s) > 0 /\ \A k \in 1..Len(s) : IsDigit(Char(s, k))
    \/ Len(s) > 1 /\ Char(s, 1) = "-" /\ \A k \in 2..Len(s) : IsDigit(Char(s, k))

\* C18 as stated: in the formatted transactions table every date and amount
\* present in a source row is in the same row of the output unchanged, a
\* blank date and a zero amount are written only where the source has no
\* value, and a present amount is never replaced by a default or by NaN.
C18_PresentValuesCarried ==
    (fase = "formatado" /\ entrada.tipo = "lancamentos") =>
        /\ Len(planilhas.rows) = Len(entrada.dados.rows)
        /\ \A i \in 1..Len(entrada.dados.rows) :
            /\ DataLevada(i)
            /\ IF Presente(i, "Valor")
               THEN /\ planilhas.rows[i]["Valor"] # NaN
                    /\ entrada.dados.rows[i]["Valor"].k = "num" =>
                            planilhas.rows[i]["Valor"] = entrada.dados.rows[i]["Valor"]
                    /\ planilhas.rows[i]["Valor"] = Num(0) =>
                            PyStr(entrada.dados.rows[i]["Valor"]) = "0"
               ELSE planilhas.rows[i]["Valor"] = Num(0)

\* C18 amended: dates as stated; a present amount that is a number, or a
\* text that writes a number, is in the same row as that number; a present
\* amount that is any other text becomes NaN; zero is written only where the
\* source has no amount.
C18_PresentValuesCarriedOrNaN ==
    (fase = "formatado" /\ entrada.tipo = "lancamentos") =>
        /\ Len(planilhas.rows) = Len(entrada.dados.rows)
        /\ \A i \in 1..Len(entrada.dados.rows) :
            /\ DataLevada(i)
            /\ planilhas.rows[i]["Valor"] =
                    IF ~Presente(i, "Valor") THEN Num(0)
                    ELSE IF entrada.dados.rows[i]["Valor"].k = "num"
                    THEN entrada.dados.rows[i]["Valor"]
                    ELSE IF EhNumeral(entrada.dados.rows[i]["Valor"].v)
                    THEN (IF Char(entrada.dados.rows[i]["Valor"].v, 1) = "-"
                          THEN Num(0 - StrToNat(Tail(entrada.dados.rows[i]["Valor"].v)))
                          ELSE Num(StrToNat(entrada.dados.rows[i]["Valor"].v)))
                    ELSE NaN

\* a row with a date text and a number, carried, and a row with no date and
\* an amount that is not a number
C18_Witness ==
    /\ fase = "formatado"
    /\ entrada.tipo = "lancamentos"
    /\ entrada.dados.cols = <<"Data", "Valor">>
    /\ Len(planilhas.rows) = 2
    /\ entrada.dados.rows[1]["Data"] = Str("01/02/2024")
    /\ planilhas.rows[1]["Data"] = Str("01/02/2024")
    /\ planilhas.rows[1]["Valor"] = Num(5)
    /\ entrada.dados.rows[2]["Data"] = NaN
    /\ planilhas.rows[2]["Data"] = Str("")
    /\ entrada.dados.rows[2]["Valor"] = Str("1,5")
    /\ planilhas.rows[2]["Valor"] = NaN

\* the text s has the digits and the separator sep of a date written with
\* the groups of lengths a, b, c
TemFormato(s, a, b, c, sep) ==
    /\ Len(s) = a + b + c + 2
    /\ \A k \in 1..Len(s) :
            IF k \in {a + 1, a + b + 2} THEN Char(s, k) = sep ELSE IsDigit(Char(s, k))

\* how a text writes a date: day/month/year, year-month-day, year-month-day
\* with a time of day, or not a date at all
FormatoDaData(s) ==
    IF TemFormato(s, 2, 2, 4, "/") THEN "dd/mm/aaaa"
    ELSE IF TemFormato(s, 4, 2, 2, "-") THEN "aaaa-mm-dd"
    ELSE IF Len(s) = 19 /\ TemFormato(SubSeq(s, 1, 10), 4, 2, 2, "-") THEN "aaaa-mm-dd hh:mm:ss"
    ELSE "nenhum"

\* the date column of the formatted table
ColunaDeData == IF entrada.tipo = "contas_correntes" THEN "Data Inicial" ELSE "Data"

\* the source cell of row i holds a date: a date value or a text that
\* writes one
TemData(i) ==
    /\ HasCol(entrada.dados, "Data")
    /\ \/ entrada.dados.rows[i]["Data"].k = "date"
       \/ /\ IsStr(entrada.dados.rows[i]["Data"])
          /\ FormatoDaData(entrada.dados.rows[i]["Data"].v) # "nenhum"

\* C19: in the formatted transactions, transfers and accounts tables a
\* source date that is blank, missing or unparsable is blank in the output,
\* no date is written where the source has none, and all the non-blank dates
\* of a table are written in one format, whether the source cell held a date
\* text or a date value.
C19_BlankStaysBlankAndOneFormat ==
    fase = "formatado" =>
        /\ \A i \in 1..Len(planilhas.rows) :
                planilhas.rows[i][ColunaDeData] # Str("") =>
                    /\ FormatoDaData(planilhas.rows[i][ColunaDeData].v) # "nenhum"
                    /\ \E j \in 1..Len(entrada.dados.rows) : TemData(j)
                    /\ entrada.tipo # "contas_correntes" => TemData(i)
        /\ Cardinality({FormatoDaData(planilhas.rows[i][ColunaDeData].v) :
                            i \in {j \in 1..Len(planilhas.rows) :
                                      planilhas.rows[j][ColunaDeData] # Str("")}}) <= 1

\* C20: when a transfers input with rows has no Data column, the Data cell
\* of every output row is blank, as it is for a Data column with empty cells;
\* the date of the run is never written as a transfer date.
C20_NoDataColumnGivesBlankDate ==
    (fase = "retorno" /\ entrada.rows # <<>> /\ ~HasCol(entrada, "Data")) =>
        \A i \in 1..Len(saida.rows) : saida.rows[i]["Data"] = Str("")

(***************************************************************************)
(* Properties of the accounts, cost centers, categories and contacts.       *)
(***************************************************************************)
\* the date column of the source parsed as the cascade reads: day/month/year;
\* if no value parses, month/day/year on the original values; if still none,
\* auto-detection on the original values
DatasDaCascata(cells) ==
    IF ~TodasAusentes(ConverterColuna(cells, "%d/%m/%Y"))
    THEN ConverterColuna(cells, "%d/%m/%Y")
    ELSE IF ~TodasAusentes(ConverterColuna(cells, "%m/%d/%Y"))
    THEN ConverterColuna(cells, "%m/%d/%Y")
    ELSE ConverterColuna(cells, "")

\* the parsed dates of the rows that reference the account conta
DatasDaConta(conta) ==
    {DatasDaCascata(Coluna(entrada.dados, "Data"))[i].v :
        i \in {j \in 1..Len(entrada.dados.rows) :
                  /\ entrada.dados.rows[j]["Conta"] = conta
                  /\ ~IsNa(DatasDaCascata(Coluna(entrada.dados, "Data"))[j])}}

\* C21: with a date column in the transactions, the opening date of every
\* account is the earliest parsed date among the rows of that account minus
\* one day; the column is parsed as day/month/year, else as month/day/year
\* on the original values, else by auto-detection on the original values; an
\* account with no parsed date has a blank opening date.
C21_OpeningDateByFormatCascade ==
    (/\ fase = "processado"
     /\ entrada.tipo = "contas_correntes"
     /\ HasCol(entrada.dados, "Data")) =>
        \A i \in 1..Len(saida.rows) :
            saida.rows[i]["DataInicial"] =
                IF DatasDaConta(saida.rows[i]["Nome"]) = {} THEN Str("")
                ELSE Str(FormatarData(DiaAnterior(
                        CHOOSE d \in DatasDaConta(saida.rows[i]["Nome"]) :
                            \A e \in DatasDaConta(saida.rows[i]["Nome"]) \ {d} :
                                DataMenor(d, e))))

RECURSIVE PrimeirasOcorrencias(_, _)
\* the cells of q that hold a value, each once, in the order they first occur
PrimeirasOcorrencias(q, vistos) ==
    IF q = <<>> THEN <<>>
    ELSE IF IsNa(Head(q)) \/ Head(q) \in vistos THEN PrimeirasOcorrencias(Tail(q), vistos)
    ELSE <<Head(q)>> \o PrimeirasOcorrencias(Tail(q), vistos \cup {Head(q)})

\* the first column of the source whose lower-cased name holds both words
PrimeiraColunaCentroCusto ==
    entrada.dados.cols[
        Min({j \in 1..Len(entrada.dados.cols) :
                /\ Contains("centro", Lower(entrada.dados.cols[j]))
                /\ Contains("custo", Lower(entrada.dados.cols[j]))})]

\* a text with a character that is not white space
NaoBranco(c) == IsStr(c) /\ Strip(c.v) # ""

\* C22: the cost-center table holds, as Nome and in first-seen order, the
\* distinct non-blank values of the first transactions column whose
\* lower-cased name contains 'centro' and 'custo' (no blank or empty name, no
\* name twice), Codigo 1..n in that order and Ativo 'Sim' in every row, after
\* processing and after formatting.
C22_DistinctNonBlankCostCenters ==
    (/\ fase \in {"processado", "formatado"}
     /\ entrada.tipo = "centros_custo"
     /\ \E j \in 1..Len(entrada.dados.cols) :
            /\ Contains("centro", Lower(entrada.dados.cols[j]))
            /\ Contains("custo", Lower(entrada.dados.cols[j]))) =>
        LET tabela == IF fase = "processado" THEN saida ELSE planilhas
        IN  /\ Coluna(tabela, "Nome") =
                    PrimeirasOcorrencias(Coluna(entrada.dados, PrimeiraColunaCentroCusto), {})
            /\ \A i \in 1..Len(tabela.rows) :
                    /\ NaoBranco(tabela.rows[i]["Nome"])
                    /\ tabela.rows[i]["Codigo"] = Num(i)
                    /\ tabela.rows[i]["Ativo"] = Str("Sim")

\* a cell that holds a number or a text that is not blank
TemValor(c) == c.k = "num" \/ NaoBranco(c)

\* C23: every row of the categories table that _processar_categorias gives
\* has a non-blank code and a non-blank name, for every chart: with or
\* without a code column, with names that carry no code, with zero rows.
C23_CodeAndNameNeverBlank ==
    (fase = "processado" /\ entrada.tipo = "categorias") =>
        /\ Len(saida.rows) = Len(entrada.dados.rows)
        /\ \A i \in 1..Len(saida.rows) :
                TemValor(saida.rows[i]["Codigo"]) /\ TemValor(saida.rows[i]["Nome"])

\* the known alias columns of the chart
ApelidosDoPlano == Range(colunas_possiveis_codigo) \cap Range(entrada.dados.cols)

\* C24: the codes of the categories table follow the cascade: the chart's
\* code column; else a known alias column; else, row by row, (code, name) is
\* what _limpar_categoria gives for the row's name; else the integers 1..n in
\* row order.
C24_CodeCascadeUsesDecompose ==
    (fase = "processado" /\ entrada.tipo = "categorias") =>
        IF HasCol(entrada.dados, "Codigo")
        THEN Coluna(saida, "Codigo") = Coluna(entrada.dados, "Codigo")
        ELSE IF ApelidosDoPlano # {}
        THEN \E a \in ApelidosDoPlano : Coluna(saida, "Codigo") = Coluna(entrada.dados, a)
        ELSE IF HasCol(entrada.dados, "Nome")
        THEN \A i \in 1..Len(saida.rows) :
                /\ saida.rows[i]["Codigo"] = Str(_limpar_categoria(entrada.dados.rows[i]["Nome"])[1])
                /\ saida.rows[i]["Nome"] = Str(_limpar_categoria(entrada.dados.rows[i]["Nome"])[2])
        ELSE \A i \in 1..Len(saida.rows) : saida.rows[i]["Codigo"] = Num(i)

\* position of the last dot of a text, 0 for a text without a dot
UltimoPonto(s) ==
    CHOOSE k \in 0..Len(s) :
        /\ k # 0 => SubSeq(s, k, k) = "."
        /\ \A j \in (k + 1)..Len(s) : SubSeq(s, j, j) # "."

\* a dotted code with its final dot-segment removed, "" without a dot
SemUltimoSegmento(s) ==
    IF UltimoPonto(s) = 0 THEN "" ELSE SubSeq(s, 1, UltimoPonto(s) - 1)

\* the categories sheet came out of the formatter, one row per category
CategoriasFormatadas ==
    /\ fase = "formatado" /\ entrada.tipo = "categorias"
    /\ HasCol(planilhas, "Código Pai")
    /\ Len(planilhas.rows) = Len(saida.rows)
    /\ \A i \in 1..Len(saida.rows) : planilhas.rows[i]["Código"] = saida.rows[i]["Codigo"]

\* C25 (as stated): in the categories sheet, row by row, Código Pai is the
\* string form of the row's code with its final dot-segment removed, blank for
\* a code without a dot, and the formatter does not raise.
C25_ParentIsCodeWithoutLastSegment ==
    (fase = "formatado" /\ entrada.tipo = "categorias") =>
        /\ CategoriasFormatadas
        /\ \A i \in 1..Len(planilhas.rows) :
                planilhas.rows[i]["Código Pai"]
                    = Str(SemUltimoSegmento(PyStr(planilhas.rows[i]["Código"])))

\* C25 (amended): in the categories sheet, row by row, Código Pai is the
\* trimmed string form of the row's code with its final dot-segment removed,
\* blank for a code without a dot; it is a function of the row's own code, and
\* the formatter does not raise on a code that is not a text.
C25_ParentIsTrimmedCodeWithoutLastSegment ==
    (fase = "formatado" /\ entrada.tipo = "categorias") =>
        /\ CategoriasFormatadas
        /\ \A i \in 1..Len(planilhas.rows) :
                planilhas.rows[i]["Código Pai"]
                    = Str(SemUltimoSegmento(Strip(PyStr(planilhas.rows[i]["Código"]))))

\* a sheet with a three-dot code and its parent next to a root code
C25_Witness ==
    /\ CategoriasFormatadas
    /\ \E i, j \in 1..Len(planilhas.rows) :
            /\ planilhas.rows[i]["Código"] = Str("2.1.1.1")
            /\ planilhas.rows[i]["Código Pai"] = Str("2.1.1")
            /\ planilhas.rows[j]["Código"] = Str("2")
            /\ planilhas.rows[j]["Código Pai"] = Str("")

\* C26: _garantir_colunas returns a table whose columns are exactly the
\* expected list in its order: a missing column is added with "" in every
\* row, an extra column is dropped, the rows and the values of the kept
\* columns are those of the input, the input table is as it was before the
\* call, and a second call with the same list returns the same table.
C26_ExactColumnsAndIdempotent ==
    (fase \in {"retorno", "segunda"} /\ "colunas_esperadas" \in DOMAIN entrada) =>
        /\ saida.cols = entrada.colunas_esperadas
        /\ Len(saida.rows) = Len(entrada.dados.rows)
        /\ \A i \in 1..Len(saida.rows) :
                /\ DOMAIN saida.rows[i] = Range(entrada.colunas_esperadas)
                /\ \A c \in Range(entrada.colunas_esperadas) :
                        saida.rows[i][c] = IF HasCol(entrada.dados, c)
                                           THEN entrada.dados.rows[i][c]
                                           ELSE Str("")
        /\ entrada = anterior
        /\ fase = "segunda" => planilhas = saida

\* a second call returned, after a first one that added a column, dropped
\* one and moved one on a table with rows
C26_Witness ==
    /\ fase = "segunda" /\ "colunas_esperadas" \in DOMAIN entrada
    /\ planilhas = saida
    /\ entrada.dados.cols = <<"C", "A">>
    /\ entrada.colunas_esperadas = <<"D", "A">>
    /\ Len(entrada.dados.rows) = 2
    /\ saida.rows[1]["A"] = Str("x") /\ saida.rows[1]["D"] = Str("")

\* the first column of the source whose lower-cased name holds one of the
\* contact words
PrimeiraColunaContato ==
    entrada.dados.cols[
        Min({j \in 1..Len(entrada.dados.cols) :
                \E p \in {"contato", "cliente", "fornecedor", "pessoa", "empresa"} :
                    Contains(p, Lower(entrada.dados.cols[j]))})]

RECURSIVE NomesAparados(_)
\* the values of q that are present and not blank, each trimmed
NomesAparados(q) ==
    IF q = <<>> THEN <<>>
    ELSE IF IsNa(Head(q)) \/ Strip(PyStr(Head(q))) = "" THEN NomesAparados(Tail(q))
    ELSE <<Str(Strip(PyStr(Head(q))))>> \o NomesAparados(Tail(q))

\* C29: the contacts table is built from the first transactions column whose
\* lower-cased name contains 'contato', 'cliente', 'fornecedor', 'pessoa' or
\* 'empresa'; its Nome values are the trimmed non-blank values of that
\* column, in first-seen order and pairwise distinct (values that differ only
\* in surrounding white space give one row), with Tipo 0 and every other
\* field blank.
C29_DistinctTrimmedContacts ==
    (/\ fase \in {"processado", "formatado"}
     /\ entrada.tipo = "contatos"
     /\ \E j \in 1..Len(entrada.dados.cols) :
            \E p \in {"contato", "cliente", "fornecedor", "pessoa", "empresa"} :
                Contains(p, Lower(entrada.dados.cols[j]))) =>
        LET tabela == IF fase = "processado" THEN saida ELSE planilhas
        IN  /\ Coluna(tabela, "Nome") =
                    PrimeirasOcorrencias(
                        NomesAparados(Coluna(entrada.dados, PrimeiraColunaContato)), {})
            /\ \A i, j \in 1..Len(tabela.rows) :
                    i # j => tabela.rows[i]["Nome"] # tabela.rows[j]["Nome"]
            /\ \A i \in 1..Len(tabela.rows) :
                    /\ NaoBranco(tabela.rows[i]["Nome"])
                    /\ tabela.rows[i]["Tipo"] = Num(0)
                    /\ \A c \in Range(tabela.cols) \ {"Nome", "Tipo"} :
                            tabela.rows[i][c] = Str("")

\* the step is one of the five and the tables of the steps before it are stored
EtapaTemSeusDados ==
    /\ etapa_atual \in 0..4
    /\ etapa_atual >= 1 => dados_lancamentos # None
    /\ etapa_atual >= 2 => dados_transferencias # None
    /\ etapa_atual >= 3 => dados_categorias # None

\* a move of the wizard: one step forward, one step back, or back to step 0
\* with the tables and the mapping cleared
MovimentoDaEtapa ==
    etapa_atual' # etapa_atual =>
        \/ etapa_atual' = etapa_atual + 1
        \/ etapa_atual' = etapa_atual - 1
        \/ /\ etapa_atual' = 0
           /\ dados_lancamentos' = None
           /\ dados_transferencias' = None
           /\ dados_categorias' = None
           /\ mapeamento_categorias' = <<>>

\* C27: in every reachable state of the wizard etapa_atual is in 0..4 and
\* the tables of the steps already passed are stored (>= 1 the transactions,
\* >= 2 the transfers, >= 3 the chart); every action that moves the step moves
\* it by +1 or -1, or sets it to 0 with all stored tables and the mapping
\* cleared, so step 4 never runs the transformer on a missing table.
C27_StepHasItsData ==
    /\ EtapaTemSeusDados
    /\ [][EtapaTemSeusDados' /\ MovimentoDaEtapa]_vars

\* step 4 has run the transformer on the three stored tables
C27_Witness ==
    /\ fase = "assistente" /\ etapa_atual = 4
    /\ dados_lancamentos # None /\ dados_transferencias # None /\ dados_categorias # None
    /\ arquivos_memoria # None

\* the run was made with transactions that have a 'Categoria' column, a chart
\* that has a 'Nome' column and a mapping that is complete and whose values
\* are valid categories of the chart
MapeamentoCompletoEValido ==
    /\ fase \in {"processado", "formatado"}
    /\ "mapeamento" \in DOMAIN entrada
    /\ ~saida.raise
    /\ HasCol(entrada.lanc, "Categoria") /\ HasCol(entrada.cat, "Nome")
    /\ categorias_pendentes(entrada.lanc, entrada.cat, entrada.mapeamento) = <<>>
    /\ \A k \in 1..Len(entrada.mapeamento) :
            entrada.mapeamento[k][2] \in Range(OpcoesDaTela(entrada.cat))

\* C28: after a run with a complete mapping whose values are valid
\* categories, every non-blank Categoria of the transactions output is the
\* Nome of some row of the categories output built from the same chart,
\* whatever the layout of the chart.
C28_EveryCategoryIsAChartName ==
    MapeamentoCompletoEValido =>
        \A i \in 1..Len(saida.ret.lancamentos.rows) :
            NaoBranco(saida.ret.lancamentos.rows[i]["Categoria"]) =>
                \E j \in 1..Len(saida.ret.categorias.rows) :
                    saida.ret.categorias.rows[j]["Nome"]
                        = saida.ret.lancamentos.rows[i]["Categoria"]

====
